---- MODULE Spec2Model ----
(***************************************************************************)
(* examConnect: the real-time group messaging core.                        *)
(*                                                                         *)
(* The stores (Group, Message) are MongoDB collections reached through     *)
(* Mongoose; every `await` on a store call is a suspension point, so each  *)
(* handler is a sequence of atomic steps: one store operation followed by  *)
(* the synchronous code that runs until the next await.  Handlers in       *)
(* flight are the records of `tasks`, in the order their events arrived.   *)
(***************************************************************************)
EXTENDS Integers, Sequences, FiniteSets, TLC

VARIABLES groups,      \* Group collection: group id -> document or NoGroup
          messages,    \* Message collection, in insertion order
          nextMsgId,   \* next _id / createdAt position handed out by Message.create
          conns,       \* socket.io connections: state, user, rooms
          tasks,       \* handler invocations (socket events and REST requests)
          outbox,      \* everything emitted to sockets, in emission order
          quizzes      \* Quiz collection: quiz id -> document or NoQuiz

vars == <<groups, messages, nextMsgId, conns, tasks, outbox, quizzes>>

(***************************************************************************)
(* Bounds                                                                  *)
(***************************************************************************)
MaxTasks == 2          \* handler invocations per behaviour
MaxTyping == 1         \* typing events per behaviour

(***************************************************************************)
(* Universe                                                                *)
(***************************************************************************)
Users    == {"u1", "u2", "u3"}
GroupIds == {"g1", "g2"}
Conns    == {"c1", "c2", "c3"}
None     == "none"                    \* null where a string is expected
NoId     == 0                         \* null where a message id is expected
NoGroup  == [exists |-> FALSE]        \* null where a Group document is expected
NoDoc    == [missing |-> TRUE]        \* null where a Message document is expected
NoRoom   == <<"none", "none">>        \* an emission addressed to one socket, not a room
NoQuiz   == [exists |-> FALSE]        \* null where a Quiz document is expected
NoArg    == [none |-> TRUE]           \* a request without parameters of its own
NoBody   == [empty |-> TRUE]          \* no response body produced (yet)

\* User.role (validation.js: 'admin' | 'student')
UserRole == [u \in Users |-> IF u = "u1" THEN "admin" ELSE "student"]

(***************************************************************************)
(* JavaScript values: an ObjectId is an object, its toString() a string.   *)
(* `===` on a string and an object, or on two distinct objects, is false.  *)
(***************************************************************************)
Oid(x) == [t |-> "oid", v |-> x]
Str(x) == [t |-> "str", v |-> x]
toString(x) == [t |-> "str", v |-> x.v]
StrictEq(a, b) == a.t = "str" /\ b.t = "str" /\ a.v = b.v

SeqToSet(s) == {s[i] : i \in 1..Len(s)}

(***************************************************************************)
(* Group model (models/Group.js)                                           *)
(***************************************************************************)
Member(u, r) == [user |-> u, role |-> r]

\* maxMembers defaults to 500 (Group.js 36-41); v is the document's
\* version key __v
NewGroup(creator, mems, asm, afu) ==
    [exists |-> TRUE, createdBy |-> creator, members |-> mems,
     settings |-> [allowStudentMessages |-> asm, allowFileUploads |-> afu],
     maxMembers |-> 500, v |-> 0]

\* Group.findById: the stored document, or null
GroupFindById(g) == IF g \in DOMAIN groups THEN groups[g] ELSE NoGroup

\* isMember with the comparison inverted
isMemberInverted(group, userId) ==
    \E i \in 1..Len(group.members) :
        ~StrictEq(toString(Oid(group.members[i].user)), toString(userId))

\* groupSchema.methods.isMember: member.user.toString() === userId.toString()
isMember(group, userId) ==
    \E i \in 1..Len(group.members) :
        StrictEq(toString(Oid(group.members[i].user)), toString(userId))

\* groupSchema.methods.isAdmin
isAdmin(group, userId) ==
    \E i \in 1..Len(group.members) :
        /\ StrictEq(toString(Oid(group.members[i].user)), toString(userId))
        /\ group.members[i].role = "admin"

(***************************************************************************)
(* Message model (models/Message.js)                                       *)
(***************************************************************************)
\* the text a message is created with; ids are handed out in creation order,
\* so the order of createdAt is the order of id
TextOf(type) == IF type = "system" THEN "system text" ELSE "original text"

NewMessage(id, g, sender, type, replyTo) ==
    [id |-> id, groupId |-> g, senderId |-> sender, type |-> type,
     replyTo |-> replyTo, readBy |-> <<>>, isDeleted |-> FALSE,
     deletedAt |-> FALSE, content |-> TextOf(type),
     edited |-> [isEdited |-> FALSE, previousContent |-> None]]

\* Message.findById: the stored document, or null
MessageFindById(id) ==
    IF \E i \in 1..Len(messages) : messages[i].id = id
    THEN (CHOOSE m \in SeqToSet(messages) : m.id = id)
    ELSE NoDoc

\* Message.findOne({_id, groupId})
MessageFindOneInGroup(id, g) ==
    IF \E i \in 1..Len(messages) : messages[i].id = id /\ messages[i].groupId = g
    THEN (CHOOSE m \in SeqToSet(messages) : m.id = id /\ m.groupId = g)
    ELSE NoDoc

(***************************************************************************)
(* JavaScript primitives held in Mixed fields (answers, correctAnswer):    *)
(* `===` of two primitives is equality of type and value.  A string is the *)
(* sequence of its characters.                                             *)
(***************************************************************************)
JsString(cs)  == [t |-> "string", cs |-> cs]
JsBoolean(b)  == [t |-> "boolean", b |-> b]
JsNumber(n)   == [t |-> "number", n |-> n]
JsUndefined   == [t |-> "undefined"]

\* String.prototype.toLowerCase over the letters in use
toLowerCase(cs) ==
    [k \in 1..Len(cs) |-> IF cs[k] = "A" THEN "a" ELSE IF cs[k] = "B" THEN "b" ELSE cs[k]]

\* String.prototype.trim
RECURSIVE trim(_)
trim(cs) ==
    IF cs = <<>> THEN cs
    ELSE IF Head(cs) = " " THEN trim(Tail(cs))
    ELSE IF cs[Len(cs)] = " " THEN trim(SubSeq(cs, 1, Len(cs) - 1))
    ELSE cs

(***************************************************************************)
(* Numbers that are not integers (percentage, averages) are kept as        *)
(* fractions in lowest terms.                                              *)
(***************************************************************************)
RECURSIVE GCD(_, _)
GCD(a, b) == IF b = 0 THEN a ELSE GCD(b, a % b)

Rat(n, d) == LET g == GCD(n, d) IN [num |-> n \div g, den |-> d \div g]
RatAdd(a, b) == Rat(a.num * b.den + b.num * a.den, a.den * b.den)
RatDivInt(a, n) == Rat(a.num, a.den * n)
RatLeq(a, b) == a.num * b.den <= b.num * a.den

RECURSIVE SumSeq(_)
SumSeq(s) == IF s = <<>> THEN 0 ELSE Head(s) + SumSeq(Tail(s))

RECURSIVE RatSum(_)
RatSum(s) == IF s = <<>> THEN Rat(0, 1) ELSE RatAdd(Head(s), RatSum(Tail(s)))

\* Array.prototype.filter on a sequence
RECURSIVE SelectIdx(_, _)
SelectIdx(s, keep) ==
    IF s = <<>> THEN <<>>
    ELSE LET rest == SelectIdx(SubSeq(s, 1, Len(s) - 1), keep)
         IN IF Len(s) \in keep THEN Append(rest, s[Len(s)]) ELSE rest

(***************************************************************************)
(* Quiz model (models/Quiz.js)                                             *)
(***************************************************************************)
Question(type, correctAnswer, marks) ==
    [type |-> type, correctAnswer |-> correctAnswer, marks |-> marks, options |-> <<>>]

\* an entry of a question's options (Quiz.js 36-39)
Option(text, isCorrect) == [text |-> text, isCorrect |-> isCorrect]

\* an answer as a request carries it (validation.js 291-299)
Answer(questionIndex, answer) ==
    [questionIndex |-> questionIndex, answer |-> answer, timeSpent |-> 0]

NoScore   == -1                        \* totalScore of a submission not yet graded
NoPercent == [num |-> -1, den |-> 1]    \* percentage of a submission not yet graded
NoStat    == [unset |-> TRUE]          \* a hole of analytics.questionStats

\* the subdocument startQuiz pushes (quizController.js 339-346)
NewSubmission(id, userId, attemptNumber) ==
    [id |-> id, userId |-> userId, answers |-> <<>>, submittedAt |-> FALSE,
     totalScore |-> NoScore, percentage |-> NoPercent,
     attemptNumber |-> attemptNumber, status |-> "in-progress"]

\* pre('save') when questions is modified: sum of (marks || 1)
TotalMarksOf(questions) ==
    SumSeq([k \in 1..Len(questions) |->
               IF questions[k].marks # 0 THEN questions[k].marks ELSE 1])

NewQuiz(g, creator, questions, maxAttempts) ==
    [exists |-> TRUE, groupId |-> g, createdBy |-> creator, questions |-> questions,
     settings |-> [maxAttempts |-> maxAttempts], isActive |-> TRUE, expired |-> FALSE,
     totalMarks |-> TotalMarksOf(questions), submissions |-> <<>>,
     analytics |-> [totalSubmissions |-> 0, averageScore |-> Rat(0, 1),
                    highestScore |-> Rat(0, 1), lowestScore |-> Rat(0, 1),
                    questionStats |-> <<>>],
     v |-> 0]

\* Quiz.findById: the stored document, or null
QuizFindById(q) == IF q \in DOMAIN quizzes THEN quizzes[q] ELSE NoQuiz

HasQuestion(quiz, answer) == answer.questionIndex + 1 \in 1..Len(quiz.questions)

\* calculateScore 242-245: toLowerCase is called on anything that is not
\* null or undefined, and is no function of a number or a boolean
ScoreThrows(quiz, answers) ==
    \E k \in 1..Len(answers) :
        /\ HasQuestion(quiz, answers[k])
        /\ quiz.questions[answers[k].questionIndex + 1].type = "short-answer"
        /\ \/ quiz.questions[answers[k].questionIndex + 1].correctAnswer.t
                 \in {"number", "boolean"}
           \/ answers[k].answer.t \in {"number", "boolean"}

\* the switch of calculateScore 235-252
IsCorrect(question, answer) ==
    CASE question.type \in {"multiple-choice", "true-false"} ->
             question.correctAnswer = answer.answer
      [] question.type = "short-answer" ->
             IF question.correctAnswer.t = "string" /\ answer.answer.t = "string"
             THEN trim(toLowerCase(question.correctAnswer.cs))
                      = trim(toLowerCase(answer.answer.cs))
             ELSE question.correctAnswer.t = "undefined" /\ answer.answer.t = "undefined"
      [] OTHER -> FALSE

\* calculateScore 254-260 for one answer: marksObtained = question.marks || 1
GradeAnswer(quiz, answer) ==
    IF HasQuestion(quiz, answer)
    THEN LET question == quiz.questions[answer.questionIndex + 1]
             isCorrect == IsCorrect(question, answer)
         IN [questionIndex |-> answer.questionIndex, answer |-> answer.answer,
             timeSpent |-> answer.timeSpent, isCorrect |-> isCorrect,
             marksObtained |-> IF isCorrect
                               THEN (IF question.marks # 0 THEN question.marks ELSE 1)
                               ELSE 0]
    ELSE answer

\* quizSchema.methods.calculateScore without its call of updateAnalytics
calculateScore(quiz, submission) ==
    LET answers == [k \in 1..Len(submission.answers) |->
                       GradeAnswer(quiz, submission.answers[k])]
        totalScore == SumSeq([k \in 1..Len(answers) |->
                          IF HasQuestion(quiz, answers[k])
                          THEN answers[k].marksObtained ELSE 0])
    IN [submission EXCEPT
           !.answers = answers,
           !.totalScore = totalScore,
           !.percentage = IF quiz.totalMarks > 0
                          THEN Rat(totalScore * 100, quiz.totalMarks) ELSE Rat(0, 1),
           !.status = "graded"]

RECURSIVE RatMax(_)
RatMax(s) == IF Len(s) = 1 THEN s[1]
             ELSE LET m == RatMax(Tail(s)) IN IF RatLeq(m, s[1]) THEN s[1] ELSE m

RECURSIVE RatMin(_)
RatMin(s) == IF Len(s) = 1 THEN s[1]
             ELSE LET m == RatMin(Tail(s)) IN IF RatLeq(s[1], m) THEN s[1] ELSE m

\* the entry of analytics.questionStats for question index `index`
QuestionStat(graded, index, old) ==
    LET answered(sub) == \E a \in 1..Len(sub.answers) : sub.answers[a].questionIndex = index
        first(sub) == sub.answers[CHOOSE a \in 1..Len(sub.answers) :
                          /\ sub.answers[a].questionIndex = index
                          /\ \A b \in 1..(a - 1) : sub.answers[b].questionIndex # index]
        questionSubmissions == SelectIdx(graded, {k \in 1..Len(graded) : answered(graded[k])})
        n == Len(questionSubmissions)
    IN IF n = 0 THEN old
       ELSE [questionIndex |-> index,
             correctAnswers |-> Cardinality({k \in 1..n :
                 /\ "isCorrect" \in DOMAIN first(questionSubmissions[k])
                 /\ first(questionSubmissions[k]).isCorrect}),
             totalAttempts |-> n,
             averageTime |-> RatDivInt(Rat(SumSeq([k \in 1..n |->
                                 first(questionSubmissions[k]).timeSpent]), 1), n)]

\* updateAnalytics filtering on status 'submitted', as submissionCount does
updateAnalyticsSubmittedOnly(quiz) ==
    LET submittedQuizzes ==
            SelectIdx(quiz.submissions,
                      {k \in 1..Len(quiz.submissions) : quiz.submissions[k].status = "submitted"})
        n == Len(submittedQuizzes)
        percentages == [k \in 1..n |-> submittedQuizzes[k].percentage]
        oldStats == quiz.analytics.questionStats
        statAt(index) == IF index + 1 <= Len(oldStats) THEN oldStats[index + 1] ELSE NoStat
        newStats == [k \in 1..Len(quiz.questions) |->
                        QuestionStat(submittedQuizzes, k - 1, statAt(k - 1))]
        \* assigning questionStats[index] extends the array up to that index
        lastSet == IF \E k \in 1..Len(newStats) : newStats[k] # NoStat
                   THEN CHOOSE k \in 1..Len(newStats) :
                            /\ newStats[k] # NoStat
                            /\ \A j \in (k + 1)..Len(newStats) : newStats[j] = NoStat
                   ELSE 0
        len == IF lastSet > Len(oldStats) THEN lastSet ELSE Len(oldStats)
    IN IF n = 0 THEN quiz
       ELSE [quiz EXCEPT !.analytics =
                [totalSubmissions |-> n,
                 averageScore |-> RatDivInt(RatSum(percentages), n),
                 highestScore |-> RatMax(percentages),
                 lowestScore |-> RatMin(percentages),
                 questionStats |-> [k \in 1..len |->
                                      IF k <= Len(newStats) THEN newStats[k] ELSE oldStats[k]]]]

\* quizSchema.methods.updateAnalytics
updateAnalytics(quiz) ==
    LET submittedQuizzes ==
            SelectIdx(quiz.submissions,
                      {k \in 1..Len(quiz.submissions) : quiz.submissions[k].status = "graded"})
        n == Len(submittedQuizzes)
        percentages == [k \in 1..n |-> submittedQuizzes[k].percentage]
        oldStats == quiz.analytics.questionStats
        statAt(index) == IF index + 1 <= Len(oldStats) THEN oldStats[index + 1] ELSE NoStat
        newStats == [k \in 1..Len(quiz.questions) |->
                        QuestionStat(submittedQuizzes, k - 1, statAt(k - 1))]
        \* assigning questionStats[index] extends the array up to that index
        lastSet == IF \E k \in 1..Len(newStats) : newStats[k] # NoStat
                   THEN CHOOSE k \in 1..Len(newStats) :
                            /\ newStats[k] # NoStat
                            /\ \A j \in (k + 1)..Len(newStats) : newStats[j] = NoStat
                   ELSE 0
        len == IF lastSet > Len(oldStats) THEN lastSet ELSE Len(oldStats)
    IN IF n = 0 THEN quiz
       ELSE [quiz EXCEPT !.analytics =
                [totalSubmissions |-> n,
                 averageScore |-> RatDivInt(RatSum(percentages), n),
                 highestScore |-> RatMax(percentages),
                 lowestScore |-> RatMin(percentages),
                 questionStats |-> [k \in 1..len |->
                                      IF k <= Len(newStats) THEN newStats[k] ELSE oldStats[k]]]]

\* position of the submission quizSchema.methods.submitQuiz works on: the
\* first in-progress submission of the user, 0 when there is none
FirstInProgress(quiz, userId) ==
    IF \E k \in 1..Len(quiz.submissions) :
           /\ StrictEq(toString(Oid(quiz.submissions[k].userId)), toString(userId))
           /\ quiz.submissions[k].status = "in-progress"
    THEN CHOOSE k \in 1..Len(quiz.submissions) :
           /\ StrictEq(toString(Oid(quiz.submissions[k].userId)), toString(userId))
           /\ quiz.submissions[k].status = "in-progress"
           /\ \A j \in 1..(k - 1) :
                 ~( /\ StrictEq(toString(Oid(quiz.submissions[j].userId)), toString(userId))
                    /\ quiz.submissions[j].status = "in-progress" )
    ELSE 0

\* quizSchema.methods.submitQuiz on a loaded document: the document after
\* the answers are recorded, the score calculated and the analytics updated
submitQuiz(quiz, userId, answers) ==
    LET k == FirstInProgress(quiz, userId)
    IN IF k = 0 THEN quiz
       ELSE updateAnalytics(
                [quiz EXCEPT !.submissions[k] =
                    calculateScore(quiz, [@ EXCEPT !.answers = answers,
                                                   !.submittedAt = TRUE,
                                                   !.status = "submitted"])])

(***************************************************************************)
(* socket.io rooms                                                         *)
(***************************************************************************)
GroupRoom(g) == <<"group", g>>          \* `group_${groupId}`
UserRoom(u)  == <<"user", u>>           \* `user_${userId}`

Connected(c) == conns[c].state = "authenticated"

\* io.to(room): every connected socket in the room
IoTo(room) == {c \in Conns : Connected(c) /\ room \in conns[c].rooms}

\* socket.to(room) without the exclusion of the emitting socket
SocketToAll(c, room) == IoTo(room)

\* socket.to(room): every connected socket in the room except the emitting one
SocketTo(c, room) == IoTo(room) \ {c}

Emission(ev, ti, from, room, to, data) ==
    [event |-> ev, task |-> ti, from |-> from, room |-> room, to |-> to, data |-> data]

(***************************************************************************)
(* Handler invocations                                                     *)
(***************************************************************************)
Task(kind, c, u, g, r, mid) ==
    [kind |-> kind, conn |-> c, user |-> u, groupId |-> g, replyTo |-> r,
     msgId |-> mid, pc |-> "start", message |-> NoId, sender |-> None,
     marked |-> FALSE, pending |-> {}, result |-> None,
     arg |-> NoArg, doc |-> NoDoc, body |-> NoBody]

At(i, kind, pc) == i \in 1..Len(tasks) /\ tasks[i].kind = kind /\ tasks[i].pc = pc

Finish(i, res) == [tasks EXCEPT ![i].pc = "done", ![i].result = res]

\* group ids a sender names: a stored group and one that never existed
TargetGroups == {"g1", "g0"}
\* message ids a sender names as replyTo: none, the system message of g1,
\* the system message of g2, and an id no message ever has
ReplyTargets == {NoId, 1, 2, 99}

(***************************************************************************)
(* socket.on('send-message')   websocket/socket.js 60-102                  *)
(***************************************************************************)
\* the event arrives; the handler runs up to `await Group.findById(groupId)`
SendMessage(c, g, r) ==
    /\ Connected(c)
    /\ Len(tasks) < MaxTasks
    /\ tasks' = Append(tasks, [Task("sockSend", c, conns[c].user, g, r, NoId)
                                   EXCEPT !.pc = "findGroup"])
    /\ UNCHANGED <<groups, messages, nextMsgId, conns, outbox, quizzes>>

\* Group.findById resolves; membership and settings checks; Message.create is issued
SendMessageAuthorize(i) ==
    /\ At(i, "sockSend", "findGroup")
    /\ LET t == tasks[i]
           group == GroupFindById(t.groupId)
           userId == Oid(t.user)                \* socket.userId = user._id
       IN IF group = NoGroup \/ ~isMember(group, userId)
          THEN /\ outbox' = Append(outbox,
                      Emission("error", i, t.conn, NoRoom, {t.conn}, NoId))
               /\ tasks' = Finish(i, "error")
          ELSE IF UserRole[t.user] = "student" /\ ~group.settings.allowStudentMessages
          THEN /\ outbox' = Append(outbox,
                      Emission("error", i, t.conn, NoRoom, {t.conn}, NoId))
               /\ tasks' = Finish(i, "error")
          ELSE /\ tasks' = [tasks EXCEPT ![i].pc = "create"]
               /\ UNCHANGED outbox
    /\ UNCHANGED <<groups, messages, nextMsgId, conns, quizzes>>

\* SendMessageCreate with a rejected create swallowed instead of caught
SendMessageCreateSwallowed(i) ==
    /\ At(i, "sockSend", "create")
    /\ LET t == tasks[i] IN
       \E ok \in BOOLEAN :
          IF ok
          THEN /\ messages' = Append(messages,
                      NewMessage(nextMsgId, t.groupId, t.user, "text", t.replyTo))
               /\ nextMsgId' = nextMsgId + 1
               /\ tasks' = [tasks EXCEPT ![i].pc = "populate", ![i].message = nextMsgId]
          ELSE /\ tasks' = [tasks EXCEPT ![i].pc = "populate"]
               /\ UNCHANGED <<messages, nextMsgId>>
    /\ UNCHANGED <<groups, conns, outbox, quizzes>>

\* Message.create resolves (the insert succeeded) or rejects (validation or store failure)
SendMessageCreate(i) ==
    /\ At(i, "sockSend", "create")
    /\ LET t == tasks[i] IN
       \E ok \in BOOLEAN :
          IF ok
          THEN /\ messages' = Append(messages,
                      NewMessage(nextMsgId, t.groupId, t.user, "text", t.replyTo))
               /\ nextMsgId' = nextMsgId + 1
               /\ tasks' = [tasks EXCEPT ![i].pc = "populate", ![i].message = nextMsgId]
               /\ UNCHANGED outbox
          ELSE /\ outbox' = Append(outbox,
                      Emission("error", i, t.conn, NoRoom, {t.conn}, NoId))
               /\ tasks' = Finish(i, "error")
               /\ UNCHANGED <<messages, nextMsgId>>
    /\ UNCHANGED <<groups, conns, quizzes>>

\* Message.findById(...).populate(...) resolves; io.to(room).emit('new-message')
SendMessageBroadcast(i) ==
    /\ At(i, "sockSend", "populate")
    /\ LET t == tasks[i]
           populatedMessage == MessageFindById(t.message)
           data == IF populatedMessage = NoDoc THEN NoId ELSE populatedMessage.id
       IN /\ outbox' = Append(outbox,
                 Emission("new-message", i, t.conn, GroupRoom(t.groupId),
                          IoTo(GroupRoom(t.groupId)), data))
          /\ tasks' = Finish(i, "ok")
    /\ UNCHANGED <<groups, messages, nextMsgId, conns, quizzes>>

(***************************************************************************)
(* POST /api/messages/groups/:groupId                                      *)
(* routes/messages.js 26: protect, validate, groupAuth('member'),          *)
(* sendMessage (controllers/messageController.js 70-137)                   *)
(***************************************************************************)
\* the request of authenticated user u arrives; groupAuth awaits Group.findById
RestSendMessage(u, g, r) ==
    /\ Len(tasks) < MaxTasks
    /\ tasks' = Append(tasks, [Task("restSend", None, u, g, r, NoId)
                                   EXCEPT !.pc = "groupAuth"])
    /\ UNCHANGED <<groups, messages, nextMsgId, conns, outbox, quizzes>>

\* groupAuth('member'): 404 without the group, 403 for a non-member, else next()
groupAuth(i, kind) ==
    /\ At(i, kind, "groupAuth")
    /\ LET t == tasks[i]
           group == GroupFindById(t.groupId)
       IN IF group = NoGroup THEN tasks' = Finish(i, "404")
          ELSE IF ~isMember(group, Oid(t.user)) THEN tasks' = Finish(i, "403")
          ELSE tasks' = [tasks EXCEPT ![i].pc = "controller"]
    /\ UNCHANGED <<groups, messages, nextMsgId, conns, outbox, quizzes>>

\* sendMessage: Group.findById resolves; settings check; next store call issued
RestSendMessageCheck(i) ==
    /\ At(i, "restSend", "controller")
    /\ LET t == tasks[i]
           group == GroupFindById(t.groupId)
       IN IF group = NoGroup THEN tasks' = Finish(i, "404")
          ELSE IF UserRole[t.user] = "student" /\ ~group.settings.allowStudentMessages
          THEN tasks' = Finish(i, "403")
          ELSE tasks' = [tasks EXCEPT
                            ![i].pc = IF t.replyTo # NoId THEN "findReply" ELSE "create"]
    /\ UNCHANGED <<groups, messages, nextMsgId, conns, outbox, quizzes>>

\* Message.findOne({_id: replyTo, groupId}) resolves
RestSendMessageReply(i) ==
    /\ At(i, "restSend", "findReply")
    /\ LET t == tasks[i]
           repliedMessage == MessageFindOneInGroup(t.replyTo, t.groupId)
       IN IF repliedMessage = NoDoc THEN tasks' = Finish(i, "400")
          ELSE tasks' = [tasks EXCEPT ![i].pc = "create"]
    /\ UNCHANGED <<groups, messages, nextMsgId, conns, outbox, quizzes>>

\* Message.create resolves or rejects; the populate read that follows only
\* shapes the 201 response body
RestCreate(i, kind, type) ==
    /\ At(i, kind, "create")
    /\ LET t == tasks[i] IN
       \E ok \in BOOLEAN :
          IF ok
          THEN /\ messages' = Append(messages,
                      NewMessage(nextMsgId, t.groupId, t.user, type, t.replyTo))
               /\ nextMsgId' = nextMsgId + 1
               /\ tasks' = [Finish(i, "201") EXCEPT ![i].message = nextMsgId]
          ELSE /\ tasks' = Finish(i, "500")
               /\ UNCHANGED <<messages, nextMsgId>>
    /\ UNCHANGED <<groups, conns, outbox, quizzes>>

RestSendMessageCreate(i) == RestCreate(i, "restSend", "text")

(***************************************************************************)
(* POST /api/messages/groups/:groupId/files                                *)
(* routes/messages.js 32-39: groupAuth('member'), upload, sendFileMessage  *)
(* (controllers/messageController.js 389-453); the upload delivered a file *)
(***************************************************************************)
RestSendFile(u, g) ==
    /\ Len(tasks) < MaxTasks
    /\ tasks' = Append(tasks, [Task("restFile", None, u, g, NoId, NoId)
                                   EXCEPT !.pc = "groupAuth"])
    /\ UNCHANGED <<groups, messages, nextMsgId, conns, outbox, quizzes>>

\* sendFileMessage: Group.findById resolves; allowFileUploads check
RestSendFileCheck(i) ==
    /\ At(i, "restFile", "controller")
    /\ LET t == tasks[i]
           group == GroupFindById(t.groupId)
       IN IF group = NoGroup THEN tasks' = Finish(i, "404")
          ELSE IF ~group.settings.allowFileUploads
          THEN tasks' = Finish(i, "403")
          ELSE tasks' = [tasks EXCEPT ![i].pc = "create"]
    /\ UNCHANGED <<groups, messages, nextMsgId, conns, outbox, quizzes>>

RestSendFileCreate(i) == RestCreate(i, "restFile", "file")

(***************************************************************************)
(* PUT /api/groups/:groupId  (groupAuth('admin'), updateGroup 117-155):    *)
(* Group.findByIdAndUpdate is one atomic store operation                   *)
(***************************************************************************)
UpdateGroup(u, g, asm, afu) ==
    /\ GroupFindById(g) # NoGroup
    /\ isAdmin(groups[g], Oid(u))
    /\ groups[g].settings # [allowStudentMessages |-> asm, allowFileUploads |-> afu]
    /\ groups' = [groups EXCEPT ![g].settings =
                      [allowStudentMessages |-> asm, allowFileUploads |-> afu]]
    /\ UNCHANGED <<messages, nextMsgId, conns, tasks, outbox, quizzes>>

(***************************************************************************)
(* socket.on('join-groups') / socket.on('leave-group')  socket.js 42-57    *)
(***************************************************************************)
JoinGroups(c, groupIds) ==
    /\ Connected(c)
    /\ groupIds # {}
    /\ ~({GroupRoom(g) : g \in groupIds} \subseteq conns[c].rooms)
    /\ conns' = [conns EXCEPT ![c].rooms = @ \cup {GroupRoom(g) : g \in groupIds}]
    /\ UNCHANGED <<groups, messages, nextMsgId, tasks, outbox, quizzes>>

LeaveGroup(c, g) ==
    /\ Connected(c)
    /\ GroupRoom(g) \in conns[c].rooms
    /\ conns' = [conns EXCEPT ![c].rooms = @ \ {GroupRoom(g)}]
    /\ UNCHANGED <<groups, messages, nextMsgId, tasks, outbox, quizzes>>

(***************************************************************************)
(* A running deployment: u1 created g1 and added u2, u3 created g2; each   *)
(* creation stored its 'group_created' system message (createGroup 78-87); *)
(* every user holds one authenticated connection, subscribed to its        *)
(* private channel (socket.js 39) and to the rooms of its groups.          *)
(***************************************************************************)
QuizIds == {"q1"}

\* the quiz of the deployment: a multiple-choice question worth 1 mark and a
\* true-false question worth 2, two attempts allowed
ScenarioQuestions ==
    << Question("multiple-choice", JsString(<<"B">>), 1),
       Question("true-false", JsBoolean(TRUE), 2) >>

\* u1 posted the quiz in g1; u2 started attempt 1 and submitted it
InitQuizzes ==
    [q \in QuizIds |->
        LET started == [NewQuiz("g1", "u1", ScenarioQuestions, 2)
                           EXCEPT !.submissions = <<NewSubmission(1, "u2", 1)>>]
        IN [submitQuiz(started, Str("u2"), <<Answer(0, JsString(<<"B">>))>>)
               EXCEPT !.v = 2]]

ConnUser == [c \in Conns |-> IF c = "c1" THEN "u1" ELSE IF c = "c2" THEN "u2" ELSE "u3"]

InitGroups ==
    [g \in GroupIds |->
        IF g = "g1"
        THEN NewGroup("u1", <<Member("u1", "admin"), Member("u2", "member")>>, TRUE, TRUE)
        ELSE NewGroup("u3", <<Member("u3", "admin")>>, TRUE, TRUE)]

InitMessages ==
    << NewMessage(1, "g1", "u1", "system", NoId),
       NewMessage(2, "g2", "u3", "system", NoId) >>

Init ==
    /\ groups = InitGroups
    /\ messages = InitMessages
    /\ nextMsgId = 3
    /\ conns = [c \in Conns |->
                  [state |-> "authenticated", user |-> ConnUser[c],
                   rooms |-> {UserRoom(ConnUser[c])} \cup
                             {GroupRoom(g) : g \in {h \in GroupIds :
                                  isMember(InitGroups[h], Oid(ConnUser[c]))}}]]
    /\ tasks = <<>>
    /\ outbox = <<>>
    /\ quizzes = InitQuizzes

Next ==
    \/ \E c \in Conns, g \in TargetGroups, r \in ReplyTargets : SendMessage(c, g, r)
    \/ \E i \in 1..MaxTasks : SendMessageAuthorize(i)
    \/ \E i \in 1..MaxTasks : SendMessageCreate(i)
    \/ \E i \in 1..MaxTasks : SendMessageBroadcast(i)
    \/ \E u \in Users, g \in TargetGroups, r \in ReplyTargets : RestSendMessage(u, g, r)
    \/ \E i \in 1..MaxTasks : groupAuth(i, "restSend")
    \/ \E i \in 1..MaxTasks : RestSendMessageCheck(i)
    \/ \E i \in 1..MaxTasks : RestSendMessageReply(i)
    \/ \E i \in 1..MaxTasks : RestSendMessageCreate(i)
    \/ \E u \in Users, g \in TargetGroups : RestSendFile(u, g)
    \/ \E i \in 1..MaxTasks : groupAuth(i, "restFile")
    \/ \E i \in 1..MaxTasks : RestSendFileCheck(i)
    \/ \E i \in 1..MaxTasks : RestSendFileCreate(i)
    \/ \E u \in Users, asm \in BOOLEAN, afu \in BOOLEAN :
           UpdateGroup(u, "g1", asm, afu)

Spec == Init /\ [][Next]_vars

\* the real-time send path alone, replying to nothing or to g2's message
NextSock ==
    \/ \E c \in Conns, g \in TargetGroups, r \in {NoId, 2} : SendMessage(c, g, r)
    \/ \E i \in 1..MaxTasks : SendMessageAuthorize(i)
    \/ \E i \in 1..MaxTasks : SendMessageCreate(i)
    \/ \E i \in 1..MaxTasks : SendMessageBroadcast(i)
    \/ \E u \in Users, asm \in BOOLEAN : UpdateGroup(u, "g1", asm, TRUE)

SpecSock == Init /\ [][NextSock]_vars

(***************************************************************************)
(* Read tracking (models/Message.js 126-139, 201-215)                      *)
(***************************************************************************)
\* messageSchema.methods.markAsRead on a loaded document: TRUE when it pushes
markAsRead(doc, userId) ==
    ~\E k \in 1..Len(doc.readBy) :
        StrictEq(toString(Oid(doc.readBy[k])), toString(userId))

\* message.save() after readBy.push(...): Mongoose persists the pushed element
\* as a $push on the stored array, not as a rewrite of the loaded array
PushReadBy(mid, u) ==
    [k \in 1..Len(messages) |->
        IF messages[k].id = mid
        THEN [messages[k] EXCEPT !.readBy = Append(@, u)]
        ELSE messages[k]]

Stored(mid) == \E k \in 1..Len(messages) : messages[k].id = mid

\* message ids a reader names: the system messages of g1 and g2, and an id
\* no message ever has
ReadTargets == {1, 2, 99}

(***************************************************************************)
(* socket.on('mark-message-read')   websocket/socket.js 123-142            *)
(***************************************************************************)
MarkMessageRead(c, mid) ==
    /\ Connected(c)
    /\ Len(tasks) < MaxTasks
    /\ tasks' = Append(tasks, [Task("sockRead", c, conns[c].user, None, NoId, mid)
                                   EXCEPT !.pc = "findMessage"])
    /\ UNCHANGED <<groups, messages, nextMsgId, conns, outbox, quizzes>>

\* Message.findById resolves; `message.senderId.toString() !== socket.userId`
\* compares a string with the ObjectId stored at socket.js 27
MarkMessageReadFind(i) ==
    /\ At(i, "sockRead", "findMessage")
    /\ LET t == tasks[i]
           message == MessageFindById(t.msgId)
           userId == Oid(t.user)                \* socket.userId = user._id
       IN IF message # NoDoc /\ ~StrictEq(toString(Oid(message.senderId)), userId)
          THEN tasks' = [tasks EXCEPT ![i].pc = "save",
                                      ![i].marked = markAsRead(message, userId),
                                      ![i].sender = message.senderId]
          ELSE tasks' = Finish(i, "ignored")
    /\ UNCHANGED <<groups, messages, nextMsgId, conns, outbox, quizzes>>

\* MarkMessageReadSave with the receipt sent to the group's room
MarkMessageReadSaveToGroup(i) ==
    /\ At(i, "sockRead", "save")
    /\ LET t == tasks[i] IN
       IF t.marked /\ ~Stored(t.msgId)
       THEN /\ tasks' = Finish(i, "error")
            /\ UNCHANGED <<messages, outbox>>
       ELSE /\ messages' = IF t.marked THEN PushReadBy(t.msgId, t.user) ELSE messages
            /\ outbox' = Append(outbox,
                  Emission("message-read", i, t.conn,
                           GroupRoom(MessageFindById(t.msgId).groupId),
                           IoTo(GroupRoom(MessageFindById(t.msgId).groupId)), t.msgId))
            /\ tasks' = Finish(i, "ok")
    /\ UNCHANGED <<groups, nextMsgId, conns, quizzes>>

\* message.save() resolves (or rejects when the document is gone);
\* io.to(`user_${message.senderId}`).emit('message-read')
MarkMessageReadSave(i) ==
    /\ At(i, "sockRead", "save")
    /\ LET t == tasks[i] IN
       IF t.marked /\ ~Stored(t.msgId)
       THEN /\ tasks' = Finish(i, "error")
            /\ UNCHANGED <<messages, outbox>>
       ELSE /\ messages' = IF t.marked THEN PushReadBy(t.msgId, t.user) ELSE messages
            /\ outbox' = Append(outbox,
                  Emission("message-read", i, t.conn, UserRoom(t.sender),
                           IoTo(UserRoom(t.sender)), t.msgId))
            /\ tasks' = Finish(i, "ok")
    /\ UNCHANGED <<groups, nextMsgId, conns, quizzes>>

(***************************************************************************)
(* POST /api/messages/:messageId/read                                      *)
(* markAsRead (controllers/messageController.js 260-307)                   *)
(***************************************************************************)
RestMarkAsRead(u, mid) ==
    /\ Len(tasks) < MaxTasks
    /\ tasks' = Append(tasks, [Task("restRead", None, u, None, NoId, mid)
                                   EXCEPT !.pc = "findMessage"])
    /\ UNCHANGED <<groups, messages, nextMsgId, conns, outbox, quizzes>>

\* Message.findById resolves: the document the rest of the handler works on
RestMarkAsReadFind(i) ==
    /\ At(i, "restRead", "findMessage")
    /\ LET t == tasks[i]
           message == MessageFindById(t.msgId)
       IN IF message = NoDoc THEN tasks' = Finish(i, "404")
          ELSE tasks' = [tasks EXCEPT ![i].pc = "findGroup",
                                      ![i].groupId = message.groupId,
                                      ![i].sender = message.senderId,
                                      ![i].marked = markAsRead(message, Str(t.user))]
    /\ UNCHANGED <<groups, messages, nextMsgId, conns, outbox, quizzes>>

\* Group.findById resolves; membership, own-message and already-read checks
RestMarkAsReadCheck(i) ==
    /\ At(i, "restRead", "findGroup")
    /\ LET t == tasks[i]
           group == GroupFindById(t.groupId)
           userId == Str(t.user)                \* req.user.id
       IN IF group = NoGroup \/ ~isMember(group, userId)
          THEN tasks' = Finish(i, "403")
          ELSE IF StrictEq(toString(Oid(t.sender)), userId)
          THEN tasks' = Finish(i, "200-own")
          ELSE IF t.marked
          THEN tasks' = [tasks EXCEPT ![i].pc = "save"]
          ELSE tasks' = Finish(i, "200-already")
    /\ UNCHANGED <<groups, messages, nextMsgId, conns, outbox, quizzes>>

\* message.save() resolves or rejects
RestMarkAsReadSave(i) ==
    /\ At(i, "restRead", "save")
    /\ LET t == tasks[i] IN
       IF Stored(t.msgId)
       THEN /\ messages' = PushReadBy(t.msgId, t.user)
            /\ tasks' = Finish(i, "200")
       ELSE /\ tasks' = Finish(i, "500")
            /\ UNCHANGED messages
    /\ UNCHANGED <<groups, nextMsgId, conns, outbox, quizzes>>

(***************************************************************************)
(* POST /api/messages/groups/:groupId/read-all                             *)
(* groupAuth('member'), markAllAsRead (messageController.js 312-330,       *)
(* models/Message.js 201-215)                                              *)
(***************************************************************************)
RestMarkAllAsRead(u, g) ==
    /\ Len(tasks) < MaxTasks
    /\ tasks' = Append(tasks, [Task("readAll", None, u, g, NoId, NoId)
                                   EXCEPT !.pc = "groupAuth",
                                          \* the messages with a smaller id exist
                                          \* when the request arrives
                                          !.arg = [before |-> nextMsgId]])
    /\ UNCHANGED <<groups, messages, nextMsgId, conns, outbox, quizzes>>

\* the query of Message.markAllAsRead / Message.getUnreadCount
UnreadMessages(g, u) ==
    {messages[k].id : k \in {j \in 1..Len(messages) :
        /\ messages[j].groupId = g
        /\ messages[j].senderId # u
        /\ ~messages[j].isDeleted
        /\ u \notin SeqToSet(messages[j].readBy)}}

\* this.find(...) resolves; every found document is marked and its save issued
MarkAllAsReadFind(i) ==
    /\ At(i, "readAll", "controller")
    /\ LET t == tasks[i]
           unreadMessages == UnreadMessages(t.groupId, t.user)
       IN IF unreadMessages = {}
          THEN tasks' = Finish(i, "200")
          ELSE tasks' = [tasks EXCEPT ![i].pc = "save", ![i].pending = unreadMessages]
    /\ UNCHANGED <<groups, messages, nextMsgId, conns, outbox, quizzes>>

\* one of the issued saves resolves; Promise.all resolves after the last one
MarkAllAsReadSave(i, mid) ==
    /\ At(i, "readAll", "save")
    /\ mid \in tasks[i].pending
    /\ LET t == tasks[i] IN
       IF Stored(mid)
       THEN /\ messages' = PushReadBy(mid, t.user)
            /\ tasks' = IF t.pending = {mid}
                        THEN [Finish(i, "200") EXCEPT ![i].pending = {}]
                        ELSE [tasks EXCEPT ![i].pending = @ \ {mid}]
       ELSE /\ tasks' = [Finish(i, "500") EXCEPT ![i].pending = {}]
            /\ UNCHANGED messages
    /\ UNCHANGED <<groups, nextMsgId, conns, outbox, quizzes>>

(***************************************************************************)
(* Connection handshake: io.use + io.on('connection')  socket.js 15-40,    *)
(* getUserFromToken (middleware/auth.js 235-243)                           *)
(***************************************************************************)
NoToken  == [present |-> FALSE, valid |-> FALSE, id |-> None]
BadToken == [present |-> TRUE, valid |-> FALSE, id |-> None]
TokenOf(u) == [present |-> TRUE, valid |-> TRUE, id |-> u]
\* a well-signed token whose user no longer exists
StaleToken == TokenOf("u9")
Tokens == {NoToken, BadToken, StaleToken} \cup {TokenOf(u) : u \in Users}

\* accounts that exist with isActive = false (deactivateUser, users.js 183-187)
InactiveUsers == {"u4"}

\* jwt.verify throws on a malformed or expired token; User.findById may find
\* nothing; the user document is returned whatever its isActive
getUserFromToken(token) ==
    IF token.valid /\ token.id \in Users \cup InactiveUsers THEN token.id ELSE None

Connect(c, token) ==
    /\ conns[c].state = "connecting"
    /\ LET user == IF token.present THEN getUserFromToken(token) ELSE None
       IN IF user = None
          THEN conns' = [conns EXCEPT ![c].state = "rejected"]
          ELSE conns' = [conns EXCEPT ![c] =
                   [state |-> "authenticated", user |-> user, rooms |-> {UserRoom(user)}]]
    /\ UNCHANGED <<groups, messages, nextMsgId, tasks, outbox, quizzes>>

(***************************************************************************)
(* Read tracking under concurrency: the deployment of Init with the third  *)
(* connection still in its handshake.                                      *)
(***************************************************************************)
InitRead ==
    /\ groups = InitGroups
    /\ messages = InitMessages
    /\ nextMsgId = 3
    /\ conns = [c \in Conns |->
                  IF c = "c3"
                  THEN [state |-> "connecting", user |-> None, rooms |-> {}]
                  ELSE [state |-> "authenticated", user |-> ConnUser[c],
                        rooms |-> {UserRoom(ConnUser[c])} \cup
                                  {GroupRoom(g) : g \in {h \in GroupIds :
                                       isMember(InitGroups[h], Oid(ConnUser[c]))}}]]
    /\ tasks = <<>>
    /\ outbox = <<>>
    /\ quizzes = InitQuizzes

NextRead ==
    \/ \E c \in Conns, t \in Tokens : Connect(c, t)
    \/ \E c \in Conns, mid \in ReadTargets : MarkMessageRead(c, mid)
    \/ \E i \in 1..MaxTasks : MarkMessageReadFind(i)
    \/ \E i \in 1..MaxTasks : MarkMessageReadSave(i)
    \/ \E u \in Users, mid \in ReadTargets : RestMarkAsRead(u, mid)
    \/ \E i \in 1..MaxTasks : RestMarkAsReadFind(i)
    \/ \E i \in 1..MaxTasks : RestMarkAsReadCheck(i)
    \/ \E i \in 1..MaxTasks : RestMarkAsReadSave(i)
    \/ \E u \in Users, g \in TargetGroups : RestMarkAllAsRead(u, g)
    \/ \E i \in 1..MaxTasks : groupAuth(i, "readAll")
    \/ \E i \in 1..MaxTasks : MarkAllAsReadFind(i)
    \/ \E i \in 1..MaxTasks, mid \in ReadTargets : MarkAllAsReadSave(i, mid)

SpecRead == InitRead /\ [][NextRead]_vars

(***************************************************************************)
(* socket.on('typing-start') / socket.on('typing-stop')  socket.js 105-120 *)
(***************************************************************************)
TypingStart(c, g) ==
    /\ Connected(c)
    /\ Len(outbox) < MaxTyping
    /\ outbox' = Append(outbox,
          Emission("user-typing", 0, c, GroupRoom(g), SocketTo(c, GroupRoom(g)), NoId))
    /\ UNCHANGED <<groups, messages, nextMsgId, conns, tasks, quizzes>>

TypingStop(c, g) ==
    /\ Connected(c)
    /\ Len(outbox) < MaxTyping
    /\ outbox' = Append(outbox,
          Emission("user-stop-typing", 0, c, GroupRoom(g), SocketTo(c, GroupRoom(g)), NoId))
    /\ UNCHANGED <<groups, messages, nextMsgId, conns, tasks, quizzes>>

NextTyping ==
    \/ \E c \in Conns, gs \in SUBSET GroupIds : JoinGroups(c, gs)
    \/ \E c \in Conns, g \in GroupIds : LeaveGroup(c, g)
    \/ \E c \in Conns, g \in GroupIds : TypingStart(c, g)
    \/ \E c \in Conns, g \in GroupIds : TypingStop(c, g)

SpecTyping == Init /\ [][NextTyping]_vars

(***************************************************************************)
(* Properties of the send paths (specification Spec)                       *)
(***************************************************************************)
SendKinds == {"sockSend", "restSend", "restFile"}

\* the step at which a send path decides membership
AuthPc(t) == IF t.kind = "sockSend" THEN "findGroup" ELSE "groupAuth"
\* the step at which a send path reads the group's settings
SettingsPc(t) == IF t.kind = "sockSend" THEN "findGroup" ELSE "controller"

\* membership as the Group collection records it, stated without isMember
StoredMember(u, g) ==
    /\ g \in DOMAIN groups
    /\ groups[g] # NoGroup
    /\ u \in {groups[g].members[k].user : k \in 1..Len(groups[g].members)}

Moved(i) == tasks'[i] # tasks[i]

NewEmissions == {k \in 1..Len(outbox') : k > Len(outbox)}

\* C1: a send (send-message event, REST text send, REST file send) whose
\* membership check runs while the sender is not a member of the target
\* group, or while the group does not exist, ends there: nothing is appended,
\* no new-message is emitted, and the only emission is one error addressed to
\* the sending connection (a 403/404 response on the REST paths).
C1_NonMemberSendRejected ==
    [][\A i \in 1..Len(tasks) :
          ( /\ tasks[i].kind \in SendKinds
            /\ tasks[i].pc = AuthPc(tasks[i])
            /\ Moved(i)
            /\ ~StoredMember(tasks[i].user, tasks[i].groupId) )
          => ( /\ tasks'[i].pc = "done"
               /\ tasks'[i].message = NoId
               /\ messages' = messages
               /\ \A k \in NewEmissions :
                     outbox'[k].event = "error" /\ outbox'[k].to = {tasks[i].conn}
               /\ IF tasks[i].kind = "sockSend"
                  THEN tasks'[i].result = "error" /\ Len(outbox') = Len(outbox) + 1
                  ELSE tasks'[i].result \in {"403", "404"} /\ outbox' = outbox )]_vars

C1_Witness ==
    \E i \in 1..Len(tasks), j \in 1..Len(tasks), k \in 1..Len(outbox) :
        /\ tasks[i].kind = "sockSend" /\ tasks[i].user = "u3" /\ tasks[i].groupId = "g1"
        /\ tasks[i].pc = "done" /\ tasks[i].result = "error"
        /\ outbox[k].task = i /\ outbox[k].event = "error" /\ outbox[k].to = {tasks[i].conn}
        /\ tasks[j].kind = "restSend" /\ tasks[j].groupId = "g0" /\ tasks[j].result = "404"

\* C2: when a send by a user of role student reads the settings of a group
\* whose allowStudentMessages is false, the send ends there with an error and
\* the Message collection is unchanged (so no member's unread count changes),
\* on the real-time path, the REST text path and the REST file path alike.
C2_StudentSendRejected ==
    [][\A i \in 1..Len(tasks) :
          ( /\ tasks[i].kind \in SendKinds
            /\ tasks[i].pc = SettingsPc(tasks[i])
            /\ Moved(i)
            /\ UserRole[tasks[i].user] = "student"
            /\ StoredMember(tasks[i].user, tasks[i].groupId)
            /\ ~groups[tasks[i].groupId].settings.allowStudentMessages )
          => ( /\ tasks'[i].pc = "done"
               /\ tasks'[i].result \in {"error", "403"}
               /\ messages' = messages )]_vars

C4_BroadcastOrderIsAppendOrder ==
    \A k1 \in 1..Len(outbox), k2 \in 1..Len(outbox) :
        ( /\ k1 < k2
          /\ outbox[k1].event = "new-message" /\ outbox[k2].event = "new-message"
          /\ outbox[k1].room = outbox[k2].room )
        => outbox[k1].data < outbox[k2].data

\* C5: two send-message events of one connection for one group are appended
\* in the order the events arrived.
C5_PerConnectionFifo ==
    \A i \in 1..Len(tasks), j \in 1..Len(tasks) :
        ( /\ i < j
          /\ tasks[i].kind = "sockSend" /\ tasks[j].kind = "sockSend"
          /\ tasks[i].conn = tasks[j].conn /\ tasks[i].groupId = tasks[j].groupId
          /\ tasks[i].message # NoId /\ tasks[j].message # NoId )
        => tasks[i].message < tasks[j].message

\* C10: every stored message with a non-null replyTo refers to a stored
\* message of the same group.
C10_ReplyToSameGroup ==
    \A i \in 1..Len(messages) :
        messages[i].replyTo # NoId =>
            \E j \in 1..Len(messages) :
                /\ messages[j].id = messages[i].replyTo
                /\ messages[j].groupId = messages[i].groupId

(***************************************************************************)
(* Properties of read tracking (specification SpecRead)                    *)
(***************************************************************************)
SenderOf(mid) == MessageFindById(mid).senderId

\* C7: a message-read notification is addressed to the private channel of the
\* message's sender and reaches only connections authenticated as that user;
\* every authenticated connection is subscribed to exactly one private
\* channel, its own user's.
C7_ReadReceiptPrivate ==
    /\ \A c \in Conns :
          Connected(c) =>
             {r \in conns[c].rooms : r[1] = "user"} = {UserRoom(conns[c].user)}
    /\ \A k \in 1..Len(outbox) :
          outbox[k].event = "message-read" =>
             /\ outbox[k].room = UserRoom(SenderOf(outbox[k].data))
             /\ \A c \in outbox[k].to : conns[c].user = SenderOf(outbox[k].data)

C7_Witness ==
    \E k \in 1..Len(outbox), c \in Conns :
        /\ outbox[k].event = "message-read"
        /\ Cardinality(outbox[k].to) = 2
        /\ c \notin outbox[k].to
        /\ GroupRoom(MessageFindById(outbox[k].data).groupId) \in conns[c].rooms

\* C8: readBy of every stored message names each user at most once.
C8_ReadByUnique ==
    \A i \in 1..Len(messages) :
        \A a \in 1..Len(messages[i].readBy), b \in 1..Len(messages[i].readBy) :
            a # b => messages[i].readBy[a] # messages[i].readBy[b]

\* C9: no message's readBy names the message's sender, and no message-read
\* notification is produced for a sender marking their own message.
C9_SenderNeverReads ==
    /\ \A i \in 1..Len(messages) :
          messages[i].senderId \notin SeqToSet(messages[i].readBy)
    /\ \A k \in 1..Len(outbox) :
          outbox[k].event = "message-read" =>
             conns[outbox[k].from].user # SenderOf(outbox[k].data)

(***************************************************************************)
(* Properties of the typing indicators (specification SpecTyping)          *)
(***************************************************************************)
TypingEvents == {"user-typing", "user-stop-typing"}

\* C6: a typing-start or typing-stop for a room is delivered exactly to the
\* connections subscribed to that room at that moment, the sending connection
\* excepted, and changes neither the Group nor the Message collection.
C6_TypingScopedToRoom ==
    [][\A k \in NewEmissions :
          outbox'[k].event \in TypingEvents =>
             /\ outbox'[k].to =
                   {c \in Conns : /\ c # outbox'[k].from
                                  /\ conns[c].state = "authenticated"
                                  /\ outbox'[k].room \in conns[c].rooms}
             /\ messages' = messages
             /\ groups' = groups]_vars

C6_Witness ==
    \E k \in 1..Len(outbox), c \in Conns :
        /\ outbox[k].event = "user-typing"
        /\ outbox[k].room = GroupRoom("g1")
        /\ outbox[k].room \in conns[outbox[k].from].rooms
        /\ GroupRoom("g2") \in conns[outbox[k].from].rooms
        /\ outbox[k].to # {}
        /\ c \notin outbox[k].to /\ c # outbox[k].from
        /\ GroupRoom("g2") \in conns[c].rooms

(***************************************************************************)
(* Message store reads and soft delete                                     *)
(***************************************************************************)
Reverse(s) == [k \in 1..Len(s) |-> s[Len(s) + 1 - k]]

\* toJSON transform (models/Message.js 252-263)
toJSON(doc) ==
    IF doc.isDeleted
    THEN [doc EXCEPT !.content = "This message was deleted", !.senderId = None]
    ELSE doc

\* messageSchema.statics.getGroupMessages: find({groupId, isDeleted: false})
\* .sort({createdAt: -1}).skip(skip).limit(limit), for limit >= 1
getGroupMessages(groupId, page, limit) ==
    LET skip == (page - 1) * limit
        found == Reverse(SelectIdx(messages,
                     {k \in 1..Len(messages) :
                         messages[k].groupId = groupId /\ ~messages[k].isDeleted}))
        last == IF skip + limit < Len(found) THEN skip + limit ELSE Len(found)
    IN SubSeq(found, skip + 1, last)

\* page and limit of a history request
Pages  == {1, 2}
Limits == {1, 2, 50}

(***************************************************************************)
(* GET /api/messages/groups/:groupId   (routes/messages.js 25:             *)
(* groupAuth('member'), getMessages messageController.js 7-25)             *)
(***************************************************************************)
RestGetMessages(u, g, page, limit) ==
    /\ Len(tasks) < MaxTasks
    /\ tasks' = Append(tasks, [Task("getMessages", None, u, g, NoId, NoId)
                                   EXCEPT !.pc = "groupAuth",
                                          !.arg = [page |-> page, limit |-> limit]])
    /\ UNCHANGED <<groups, messages, nextMsgId, conns, outbox, quizzes>>

\* Message.getGroupMessages resolves; the response carries messages.reverse()
GetMessagesQuery(i) ==
    /\ At(i, "getMessages", "controller")
    /\ LET t == tasks[i]
           found == getGroupMessages(t.groupId, t.arg.page, t.arg.limit)
           data == Reverse([k \in 1..Len(found) |-> toJSON(found[k])])
       IN tasks' = [Finish(i, "200") EXCEPT
                       ![i].body = [count |-> Len(found), data |-> data]]
    /\ UNCHANGED <<groups, messages, nextMsgId, conns, outbox, quizzes>>

(***************************************************************************)
(* GET /api/messages/groups/:groupId/unread   (routes/messages.js 28:      *)
(* groupAuth('member'), getUnreadCount messageController.js 335-352)       *)
(***************************************************************************)
RestGetUnreadCount(u, g) ==
    /\ Len(tasks) < MaxTasks
    /\ tasks' = Append(tasks, [Task("unread", None, u, g, NoId, NoId)
                                   EXCEPT !.pc = "groupAuth"])
    /\ UNCHANGED <<groups, messages, nextMsgId, conns, outbox, quizzes>>

\* Message.getUnreadCount resolves
GetUnreadCountQuery(i) ==
    /\ At(i, "unread", "controller")
    /\ LET t == tasks[i]
           count == Cardinality(UnreadMessages(t.groupId, t.user))
       IN tasks' = [Finish(i, "200") EXCEPT ![i].body = [unreadCount |-> count]]
    /\ UNCHANGED <<groups, messages, nextMsgId, conns, outbox, quizzes>>

(***************************************************************************)
(* DELETE /api/messages/:messageId   (routes/messages.js 44,               *)
(* deleteMessage messageController.js 207-255)                             *)
(***************************************************************************)
RestDeleteMessage(u, mid) ==
    /\ Len(tasks) < MaxTasks
    /\ tasks' = Append(tasks, [Task("restDelete", None, u, None, NoId, mid)
                                   EXCEPT !.pc = "findMessage"])
    /\ UNCHANGED <<groups, messages, nextMsgId, conns, outbox, quizzes>>

\* Message.findById resolves
RestDeleteMessageFind(i) ==
    /\ At(i, "restDelete", "findMessage")
    /\ LET t == tasks[i]
           message == MessageFindById(t.msgId)
       IN IF message = NoDoc THEN tasks' = Finish(i, "404")
          ELSE tasks' = [tasks EXCEPT ![i].pc = "findGroup", ![i].doc = message,
                                      ![i].groupId = message.groupId]
    /\ UNCHANGED <<groups, messages, nextMsgId, conns, outbox, quizzes>>

\* Group.findById resolves; sender-or-admin and system-message checks;
\* message.softDelete(); message.save() is issued.  group.isAdmin on a
\* group that is gone throws and the catch answers 500
RestDeleteMessageCheck(i) ==
    /\ At(i, "restDelete", "findGroup")
    /\ LET t == tasks[i]
           message == t.doc
           group == GroupFindById(t.groupId)
           userId == Str(t.user)                \* req.user.id
           isSender == StrictEq(toString(Oid(message.senderId)), userId)
       IN IF group = NoGroup THEN tasks' = Finish(i, "500")
          ELSE IF ~isSender /\ ~isAdmin(group, userId) THEN tasks' = Finish(i, "403")
          ELSE IF message.type = "system" THEN tasks' = Finish(i, "400")
          ELSE tasks' = [tasks EXCEPT ![i].pc = "save"]
    /\ UNCHANGED <<groups, messages, nextMsgId, conns, outbox, quizzes>>

\* message.softDelete() (models/Message.js 163-166) as message.save()
\* persists it: the two modified paths are set on the stored document
softDelete(mid) ==
    [k \in 1..Len(messages) |->
        IF messages[k].id = mid
        THEN [messages[k] EXCEPT !.isDeleted = TRUE, !.deletedAt = TRUE]
        ELSE messages[k]]

\* message.save() resolves or rejects
RestDeleteMessageSave(i) ==
    /\ At(i, "restDelete", "save")
    /\ LET t == tasks[i] IN
       IF Stored(t.msgId)
       THEN /\ messages' = softDelete(t.msgId)
            /\ tasks' = Finish(i, "200")
       ELSE /\ tasks' = Finish(i, "500")
            /\ UNCHANGED messages
    /\ UNCHANGED <<groups, nextMsgId, conns, outbox, quizzes>>

(***************************************************************************)
(* The message store of a group in use: after the deployment of Init, u2   *)
(* sent message 3 to g1, u1 sent message 4 and u2 read it.                 *)
(***************************************************************************)
InitStoreMessages ==
    << NewMessage(1, "g1", "u1", "system", NoId),
       NewMessage(2, "g2", "u3", "system", NoId),
       NewMessage(3, "g1", "u2", "text", NoId),
       [NewMessage(4, "g1", "u1", "text", NoId) EXCEPT !.readBy = <<"u2">>] >>

InitStore ==
    /\ groups = InitGroups
    /\ messages = InitStoreMessages
    /\ nextMsgId = 5
    /\ conns = [c \in Conns |->
                  [state |-> "authenticated", user |-> ConnUser[c],
                   rooms |-> {UserRoom(ConnUser[c])}]]
    /\ tasks = <<>>
    /\ outbox = <<>>
    /\ quizzes = InitQuizzes

NextStore ==
    \/ \E u \in Users, g \in TargetGroups, pg \in Pages, lim \in Limits :
           RestGetMessages(u, g, pg, lim)
    \/ \E i \in 1..MaxTasks : groupAuth(i, "getMessages")
    \/ \E i \in 1..MaxTasks : GetMessagesQuery(i)
    \/ \E u \in Users, g \in TargetGroups : RestGetUnreadCount(u, g)
    \/ \E i \in 1..MaxTasks : groupAuth(i, "unread")
    \/ \E i \in 1..MaxTasks : GetUnreadCountQuery(i)
    \/ \E u \in Users, mid \in {1, 3, 4, 99} : RestDeleteMessage(u, mid)
    \/ \E i \in 1..MaxTasks : RestDeleteMessageFind(i)
    \/ \E i \in 1..MaxTasks : RestDeleteMessageCheck(i)
    \/ \E i \in 1..MaxTasks : RestDeleteMessageSave(i)
    \/ \E u \in Users : RestSendMessage(u, "g1", NoId)
    \/ \E i \in 1..MaxTasks : groupAuth(i, "restSend")
    \/ \E i \in 1..MaxTasks : RestSendMessageCheck(i)
    \/ \E i \in 1..MaxTasks : RestSendMessageCreate(i)

SpecStore == InitStore /\ [][NextStore]_vars

(***************************************************************************)
(* Properties of the message store (specification SpecStore)               *)
(***************************************************************************)
\* every stored message of a group, newest first
RankedNewestFirst(g) ==
    Reverse(SelectIdx(messages, {k \in 1..Len(messages) : messages[k].groupId = g}))

Ids(s) == [k \in 1..Len(s) |-> s[k].id]

\* C11: a history read page(groupId, page, limit) answers, oldest first,
\* exactly the messages at positions (page-1)*limit+1 .. page*limit of the
\* group's messages ranked newest first.
C11_PageIsWindowOfGroup ==
    [][\A i \in 1..Len(tasks) :
          ( /\ tasks[i].kind = "getMessages" /\ tasks[i].pc = "controller"
            /\ Moved(i) )
          => LET t == tasks[i]
                 ranked == RankedNewestFirst(t.groupId)
                 first == (t.arg.page - 1) * t.arg.limit + 1
                 last == IF t.arg.page * t.arg.limit < Len(ranked)
                         THEN t.arg.page * t.arg.limit ELSE Len(ranked)
             IN /\ tasks'[i].result = "200"
                /\ Ids(tasks'[i].body.data) = Ids(Reverse(SubSeq(ranked, first, last)))]_vars

\* C12: a history read whose window covers a soft-deleted message M returns
\* M with content "This message was deleted" and sender null; the save of a
\* soft delete changes nothing of the stored message but isDeleted and
\* deletedAt.
C12_DeletedReturnedRedacted ==
    [][\A i \in 1..Len(tasks) :
          /\ ( /\ tasks[i].kind = "getMessages" /\ tasks[i].pc = "controller"
               /\ Moved(i) )
             => LET t == tasks[i]
                    ranked == RankedNewestFirst(t.groupId)
                IN \A r \in 1..Len(ranked) :
                      ( /\ ranked[r].isDeleted
                        /\ r > (t.arg.page - 1) * t.arg.limit
                        /\ r <= t.arg.page * t.arg.limit )
                      => \E k \in 1..Len(tasks'[i].body.data) :
                            /\ tasks'[i].body.data[k].id = ranked[r].id
                            /\ tasks'[i].body.data[k].content = "This message was deleted"
                            /\ tasks'[i].body.data[k].senderId = None
          /\ ( /\ tasks[i].kind = "restDelete" /\ tasks[i].pc = "save"
               /\ Moved(i) )
             => /\ Len(messages') = Len(messages)
                /\ \A k \in 1..Len(messages) :
                      [messages'[k] EXCEPT !.isDeleted = messages[k].isDeleted,
                                           !.deletedAt = messages[k].deletedAt]
                          = messages[k]]_vars

\* C13: the unread count answered for (groupId, userId) is the number of
\* stored messages of the group that userId did not send and whose readBy
\* does not name userId, soft-deleted messages included.
C13_UnreadCountExact ==
    [][\A i \in 1..Len(tasks) :
          ( /\ tasks[i].kind = "unread" /\ tasks[i].pc = "controller"
            /\ Moved(i) )
          => tasks'[i].body.unreadCount =
                Cardinality({k \in 1..Len(messages) :
                    /\ messages[k].groupId = tasks[i].groupId
                    /\ messages[k].senderId # tasks[i].user
                    /\ tasks[i].user \notin SeqToSet(messages[k].readBy)})]_vars

(***************************************************************************)
(* Group membership (controllers/groupController.js 57-463).               *)
(*                                                                         *)
(* group.save() sends only the modified paths, guarded by the version key  *)
(* as Mongoose does for arrays: a push is sent as $push and increments the *)
(* version without testing it; assigning the array (removeMember) is sent  *)
(* as $set, tests the loaded version and increments it; a change of one    *)
(* element's field (changeMemberRole) is sent as $set on that position and *)
(* tests the loaded version.  A failed test rejects the save.              *)
(***************************************************************************)
MembershipGroups == GroupIds \cup {"g3"}

\* users a membership request names
TargetUsers == Users
GroupRoles  == {"admin", "member"}
\* values of maxMembers a request carries (validation.js 94-99: 1..500)
MaxMembersValues == {1, 2, 3}

\* position of the member record of userId in a loaded group, 0 if none
MemberIndex(group, userId) ==
    IF isMember(group, userId)
    THEN CHOOSE k \in 1..Len(group.members) :
            /\ StrictEq(toString(Oid(group.members[k].user)), toString(userId))
            /\ \A j \in 1..(k - 1) :
                  ~StrictEq(toString(Oid(group.members[j].user)), toString(userId))
    ELSE 0

\* groupSchema.methods.removeMember: the filtered member list
removeMember(group, userId) ==
    SelectIdx(group.members,
              {k \in 1..Len(group.members) :
                  ~StrictEq(toString(Oid(group.members[k].user)), toString(userId))})

\* groupAuth('admin'): groupAuth('member') and then the isAdmin check
groupAuthAdmin(i, kind) ==
    /\ At(i, kind, "groupAuth")
    /\ LET t == tasks[i]
           group == GroupFindById(t.groupId)
       IN IF group = NoGroup THEN tasks' = Finish(i, "404")
          ELSE IF ~isMember(group, Oid(t.user)) THEN tasks' = Finish(i, "403")
          ELSE IF ~isAdmin(group, Oid(t.user)) THEN tasks' = Finish(i, "403")
          ELSE tasks' = [tasks EXCEPT ![i].pc = "controller"]
    /\ UNCHANGED <<groups, messages, nextMsgId, conns, outbox, quizzes>>

\* group.save() after members.push(member)
SavePushMember(i, res, nextPc) ==
    LET t == tasks[i] IN
    IF GroupFindById(t.groupId) = NoGroup
    THEN /\ tasks' = Finish(i, "500")
         /\ UNCHANGED groups
    ELSE /\ groups' = [groups EXCEPT
                          ![t.groupId].members = Append(@, Member(t.arg.userId, t.arg.role)),
                          ![t.groupId].v = @ + 1]
         /\ tasks' = IF nextPc = "done" THEN Finish(i, res)
                     ELSE [tasks EXCEPT ![i].pc = nextPc]

\* group.save() after this.members = this.members.filter(...)
SaveSetMembers(i, res, nextPc) ==
    LET t == tasks[i] IN
    IF GroupFindById(t.groupId) = NoGroup \/ GroupFindById(t.groupId).v # t.doc.v
    THEN /\ tasks' = Finish(i, "500")
         /\ UNCHANGED groups
    ELSE /\ groups' = [groups EXCEPT
                          ![t.groupId].members = removeMember(t.doc, Str(t.arg.userId)),
                          ![t.groupId].v = @ + 1]
         /\ tasks' = IF nextPc = "done" THEN Finish(i, res)
                     ELSE [tasks EXCEPT ![i].pc = nextPc]

\* the 'user_joined' / 'user_left' system message: Message.create resolves or rejects
MembershipMessage(i) ==
    /\ i \in 1..Len(tasks) /\ tasks[i].kind \in {"join", "leave"} /\ tasks[i].pc = "create"
    /\ LET t == tasks[i] IN
       \E ok \in BOOLEAN :
          IF ok
          THEN /\ messages' = Append(messages,
                      NewMessage(nextMsgId, t.groupId, t.user, "system", NoId))
               /\ nextMsgId' = nextMsgId + 1
               /\ tasks' = Finish(i, "200")
          ELSE /\ tasks' = Finish(i, "500")
               /\ UNCHANGED <<messages, nextMsgId>>
    /\ UNCHANGED <<groups, conns, outbox, quizzes>>

(***************************************************************************)
(* POST /api/groups/:groupId/join   (joinGroup 192-251)                    *)
(***************************************************************************)
RestJoinGroup(u, g) ==
    /\ Len(tasks) < MaxTasks
    /\ tasks' = Append(tasks, [Task("join", None, u, g, NoId, NoId)
                                   EXCEPT !.pc = "findGroup",
                                          !.arg = [userId |-> u, role |-> "member"]])
    /\ UNCHANGED <<groups, messages, nextMsgId, conns, outbox, quizzes>>

\* Group.findById resolves; member and capacity checks; addMember; save issued
RestJoinGroupCheck(i) ==
    /\ At(i, "join", "findGroup")
    /\ LET t == tasks[i]
           group == GroupFindById(t.groupId)
       IN IF group = NoGroup THEN tasks' = Finish(i, "404")
          ELSE IF isMember(group, Str(t.user)) THEN tasks' = Finish(i, "400")
          ELSE IF Len(group.members) >= group.maxMembers THEN tasks' = Finish(i, "400")
          ELSE tasks' = [tasks EXCEPT ![i].pc = "save", ![i].doc = group]
    /\ UNCHANGED <<groups, messages, nextMsgId, conns, outbox, quizzes>>

RestJoinGroupSave(i) ==
    /\ At(i, "join", "save")
    /\ SavePushMember(i, "200", "create")
    /\ UNCHANGED <<messages, nextMsgId, conns, outbox, quizzes>>

(***************************************************************************)
(* POST /api/groups/:groupId/leave   (groupAuth('member'), leaveGroup      *)
(* 256-309)                                                                *)
(***************************************************************************)
RestLeaveGroup(u, g) ==
    /\ Len(tasks) < MaxTasks
    /\ tasks' = Append(tasks, [Task("leave", None, u, g, NoId, NoId)
                                   EXCEPT !.pc = "groupAuth",
                                          !.arg = [userId |-> u, role |-> "member"]])
    /\ UNCHANGED <<groups, messages, nextMsgId, conns, outbox, quizzes>>

\* RestLeaveGroupCheck without the test for the creator
RestLeaveGroupCheckAnyone(i) ==
    /\ At(i, "leave", "controller")
    /\ LET t == tasks[i]
           group == GroupFindById(t.groupId)
       IN IF group = NoGroup THEN tasks' = Finish(i, "404")
          ELSE IF ~isMember(group, Str(t.user)) THEN tasks' = Finish(i, "400")
          ELSE tasks' = [tasks EXCEPT ![i].pc = "save", ![i].doc = group]
    /\ UNCHANGED <<groups, messages, nextMsgId, conns, outbox, quizzes>>

\* Group.findById resolves; creator check; removeMember; save issued
RestLeaveGroupCheck(i) ==
    /\ At(i, "leave", "controller")
    /\ LET t == tasks[i]
           group == GroupFindById(t.groupId)
       IN IF group = NoGroup THEN tasks' = Finish(i, "404")
          ELSE IF StrictEq(toString(Oid(group.createdBy)), Str(t.user))
          THEN tasks' = Finish(i, "400")
          ELSE IF ~isMember(group, Str(t.user)) THEN tasks' = Finish(i, "400")
          ELSE tasks' = [tasks EXCEPT ![i].pc = "save", ![i].doc = group]
    /\ UNCHANGED <<groups, messages, nextMsgId, conns, outbox, quizzes>>

RestLeaveGroupSave(i) ==
    /\ At(i, "leave", "save")
    /\ SaveSetMembers(i, "200", "create")
    /\ UNCHANGED <<messages, nextMsgId, conns, outbox, quizzes>>

(***************************************************************************)
(* POST /api/groups/:groupId/members   (groupAuth('admin'), addMember      *)
(* 314-362)                                                                *)
(***************************************************************************)
RestAddMember(u, g, userId, role) ==
    /\ Len(tasks) < MaxTasks
    /\ tasks' = Append(tasks, [Task("addMember", None, u, g, NoId, NoId)
                                   EXCEPT !.pc = "groupAuth",
                                          !.arg = [userId |-> userId, role |-> role]])
    /\ UNCHANGED <<groups, messages, nextMsgId, conns, outbox, quizzes>>

RestAddMemberCheck(i) ==
    /\ At(i, "addMember", "controller")
    /\ LET t == tasks[i]
           group == GroupFindById(t.groupId)
       IN IF group = NoGroup THEN tasks' = Finish(i, "404")
          ELSE IF isMember(group, Str(t.arg.userId)) THEN tasks' = Finish(i, "400")
          ELSE IF Len(group.members) >= group.maxMembers THEN tasks' = Finish(i, "400")
          ELSE tasks' = [tasks EXCEPT ![i].pc = "save", ![i].doc = group]
    /\ UNCHANGED <<groups, messages, nextMsgId, conns, outbox, quizzes>>

RestAddMemberSave(i) ==
    /\ At(i, "addMember", "save")
    /\ SavePushMember(i, "200", "done")
    /\ UNCHANGED <<messages, nextMsgId, conns, outbox, quizzes>>

(***************************************************************************)
(* DELETE /api/groups/:groupId/members/:userId   (groupAuth('admin'),      *)
(* removeMember 367-409)                                                   *)
(***************************************************************************)
RestRemoveMember(u, g, userId) ==
    /\ Len(tasks) < MaxTasks
    /\ tasks' = Append(tasks, [Task("removeMember", None, u, g, NoId, NoId)
                                   EXCEPT !.pc = "groupAuth",
                                          !.arg = [userId |-> userId, role |-> "member"]])
    /\ UNCHANGED <<groups, messages, nextMsgId, conns, outbox, quizzes>>

RestRemoveMemberCheck(i) ==
    /\ At(i, "removeMember", "controller")
    /\ LET t == tasks[i]
           group == GroupFindById(t.groupId)
       IN IF group = NoGroup THEN tasks' = Finish(i, "404")
          ELSE IF StrictEq(toString(Oid(group.createdBy)), Str(t.arg.userId))
          THEN tasks' = Finish(i, "400")
          ELSE IF ~isMember(group, Str(t.arg.userId)) THEN tasks' = Finish(i, "400")
          ELSE tasks' = [tasks EXCEPT ![i].pc = "save", ![i].doc = group]
    /\ UNCHANGED <<groups, messages, nextMsgId, conns, outbox, quizzes>>

RestRemoveMemberSave(i) ==
    /\ At(i, "removeMember", "save")
    /\ SaveSetMembers(i, "200", "done")
    /\ UNCHANGED <<messages, nextMsgId, conns, outbox, quizzes>>

(***************************************************************************)
(* PUT /api/groups/:groupId/members/:userId/role   (groupAuth('admin'),    *)
(* updateMemberRole 413-463)                                               *)
(***************************************************************************)
RestUpdateMemberRole(u, g, userId, role) ==
    /\ Len(tasks) < MaxTasks
    /\ tasks' = Append(tasks, [Task("updateRole", None, u, g, NoId, NoId)
                                   EXCEPT !.pc = "groupAuth",
                                          !.arg = [userId |-> userId, role |-> role]])
    /\ UNCHANGED <<groups, messages, nextMsgId, conns, outbox, quizzes>>

\* Group.findById resolves; creator check; changeMemberRole; save issued
RestUpdateMemberRoleCheck(i) ==
    /\ At(i, "updateRole", "controller")
    /\ LET t == tasks[i]
           group == GroupFindById(t.groupId)
           k == IF group = NoGroup THEN 0 ELSE MemberIndex(group, Str(t.arg.userId))
       IN IF group = NoGroup THEN tasks' = Finish(i, "404")
          ELSE IF StrictEq(toString(Oid(group.createdBy)), Str(t.arg.userId))
          THEN tasks' = Finish(i, "400")
          ELSE IF k = 0 \/ group.members[k].role = t.arg.role
          THEN tasks' = Finish(i, "400")
          ELSE tasks' = [tasks EXCEPT ![i].pc = "save", ![i].doc = group]
    /\ UNCHANGED <<groups, messages, nextMsgId, conns, outbox, quizzes>>

\* group.save() after member.role = newRole: $set on the member's position
RestUpdateMemberRoleSave(i) ==
    /\ At(i, "updateRole", "save")
    /\ LET t == tasks[i]
           k == MemberIndex(t.doc, Str(t.arg.userId))
       IN IF GroupFindById(t.groupId) = NoGroup \/ GroupFindById(t.groupId).v # t.doc.v
          THEN /\ tasks' = Finish(i, "500")
               /\ UNCHANGED groups
          ELSE /\ groups' = [groups EXCEPT ![t.groupId].members[k].role = t.arg.role]
               /\ tasks' = Finish(i, "200")
    /\ UNCHANGED <<messages, nextMsgId, conns, outbox, quizzes>>

(***************************************************************************)
(* PUT /api/groups/:groupId with {maxMembers}   (groupAuth('admin'),       *)
(* updateGroup 117-155): Group.findByIdAndUpdate with runValidators        *)
(***************************************************************************)
UpdateGroupMaxMembers(u, g, maxMembers) ==
    /\ GroupFindById(g) # NoGroup
    /\ isAdmin(groups[g], Oid(u))
    /\ groups[g].maxMembers # maxMembers
    /\ groups' = [groups EXCEPT ![g].maxMembers = maxMembers]
    /\ UNCHANGED <<messages, nextMsgId, conns, tasks, outbox, quizzes>>

(***************************************************************************)
(* POST /api/groups   (createGroup 60-112): Group.create runs pre('save')  *)
(* (models/Group.js 147-163), which adds the creator as admin              *)
(***************************************************************************)
RestCreateGroup(u, g, maxMembers) ==
    /\ Len(tasks) < MaxTasks
    /\ tasks' = Append(tasks, [Task("createGroup", None, u, g, NoId, NoId)
                                   EXCEPT !.pc = "findName",
                                          !.arg = [maxMembers |-> maxMembers]])
    /\ UNCHANGED <<groups, messages, nextMsgId, conns, outbox, quizzes>>

\* Group.findOne({name}) resolves: the name is taken or Group.create is issued
RestCreateGroupFind(i) ==
    /\ At(i, "createGroup", "findName")
    /\ tasks' = IF GroupFindById(tasks[i].groupId) # NoGroup
                THEN Finish(i, "400")
                ELSE [tasks EXCEPT ![i].pc = "createGroup"]
    /\ UNCHANGED <<groups, messages, nextMsgId, conns, outbox, quizzes>>

\* pre('save') of a new group: the creator is pushed as admin unless present
preSave(group) ==
    IF isMember(group, Oid(group.createdBy)) THEN group
    ELSE [group EXCEPT !.members = Append(@, Member(group.createdBy, "admin"))]

\* Group.create resolves; a second create of the same name stores its own
\* document, of which the collection keeps one here
RestCreateGroupCreate(i) ==
    /\ At(i, "createGroup", "createGroup")
    /\ LET t == tasks[i]
           group == [NewGroup(t.user, <<>>, TRUE, TRUE)
                         EXCEPT !.maxMembers = t.arg.maxMembers]
       IN IF GroupFindById(t.groupId) # NoGroup
          THEN tasks' = Finish(i, "500") /\ UNCHANGED groups
          ELSE /\ groups' = [groups EXCEPT ![t.groupId] = preSave(group)]
               /\ tasks' = [tasks EXCEPT ![i].pc = "message"]
    /\ UNCHANGED <<messages, nextMsgId, conns, outbox, quizzes>>

\* the 'group_created' system message: Message.create resolves or rejects
RestCreateGroupMessage(i) ==
    /\ At(i, "createGroup", "message")
    /\ LET t == tasks[i] IN
       \E ok \in BOOLEAN :
          IF ok
          THEN /\ messages' = Append(messages,
                      NewMessage(nextMsgId, t.groupId, t.user, "system", NoId))
               /\ nextMsgId' = nextMsgId + 1
               /\ tasks' = Finish(i, "201")
          ELSE /\ tasks' = Finish(i, "500")
               /\ UNCHANGED <<messages, nextMsgId>>
    /\ UNCHANGED <<groups, conns, outbox, quizzes>>

(***************************************************************************)
(* Membership of a small group: the deployment of Init with g1 limited to  *)
(* three members, and a third group not yet created.                       *)
(***************************************************************************)
InitMembership ==
    /\ groups = [g \in MembershipGroups |->
                    IF g = "g3" THEN NoGroup
                    ELSE IF g = "g1" THEN [InitGroups[g] EXCEPT !.maxMembers = 3]
                    ELSE InitGroups[g]]
    /\ messages = InitMessages
    /\ nextMsgId = 3
    /\ conns = [c \in Conns |->
                  [state |-> "authenticated", user |-> ConnUser[c],
                   rooms |-> {UserRoom(ConnUser[c])}]]
    /\ tasks = <<>>
    /\ outbox = <<>>
    /\ quizzes = InitQuizzes

NextMembership ==
    \/ \E u \in Users : RestJoinGroup(u, "g1")
    \/ \E i \in 1..MaxTasks : RestJoinGroupCheck(i)
    \/ \E i \in 1..MaxTasks : RestJoinGroupSave(i)
    \/ \E u \in Users : RestLeaveGroup(u, "g1")
    \/ \E i \in 1..MaxTasks : groupAuth(i, "leave")
    \/ \E i \in 1..MaxTasks : RestLeaveGroupCheck(i)
    \/ \E i \in 1..MaxTasks : RestLeaveGroupSave(i)
    \/ \E i \in 1..MaxTasks : MembershipMessage(i)
    \/ \E u \in Users, t \in TargetUsers, r \in GroupRoles : RestAddMember(u, "g1", t, r)
    \/ \E i \in 1..MaxTasks : groupAuthAdmin(i, "addMember")
    \/ \E i \in 1..MaxTasks : RestAddMemberCheck(i)
    \/ \E i \in 1..MaxTasks : RestAddMemberSave(i)
    \/ \E u \in Users, t \in TargetUsers : RestRemoveMember(u, "g1", t)
    \/ \E i \in 1..MaxTasks : groupAuthAdmin(i, "removeMember")
    \/ \E i \in 1..MaxTasks : RestRemoveMemberCheck(i)
    \/ \E i \in 1..MaxTasks : RestRemoveMemberSave(i)
    \/ \E u \in Users, t \in TargetUsers, r \in GroupRoles :
           RestUpdateMemberRole(u, "g1", t, r)
    \/ \E i \in 1..MaxTasks : groupAuthAdmin(i, "updateRole")
    \/ \E i \in 1..MaxTasks : RestUpdateMemberRoleCheck(i)
    \/ \E i \in 1..MaxTasks : RestUpdateMemberRoleSave(i)
    \/ \E u \in Users, mm \in MaxMembersValues : UpdateGroupMaxMembers(u, "g1", mm)
    \/ \E u \in Users, mm \in MaxMembersValues : RestCreateGroup(u, "g3", mm)
    \/ \E i \in 1..MaxTasks : RestCreateGroupFind(i)
    \/ \E i \in 1..MaxTasks : RestCreateGroupCreate(i)
    \/ \E i \in 1..MaxTasks : RestCreateGroupMessage(i)

SpecMembership == InitMembership /\ [][NextMembership]_vars

(***************************************************************************)
(* Properties of group membership (specification SpecMembership)           *)
(***************************************************************************)
\* C14: every stored group's member list holds a record of the group's
\* creator with role admin.
C14_CreatorIsAdminMember ==
    \A g \in DOMAIN groups :
        groups[g] # NoGroup =>
            \E k \in 1..Len(groups[g].members) :
                /\ groups[g].members[k].user = groups[g].createdBy
                /\ groups[g].members[k].role = "admin"

\* the creator's leave, the creator's removal and the creator's demotion were
\* each refused, and another member was removed
C14_Witness ==
    /\ Len(tasks) = 2
    /\ tasks[1].kind = "removeMember" /\ tasks[1].arg.userId = "u2"
    /\ tasks[1].result = "200"
    /\ tasks[2].kind \in {"leave", "removeMember", "updateRole"}
    /\ tasks[2].arg.userId = "u1" /\ tasks[2].groupId = "g1"
    /\ tasks[2].result = "400"
    /\ Len(groups["g1"].members) = 1

\* C15: every stored group has at most maxMembers members, and a join or
\* addMember that finds the group full ends there with the member list
\* unchanged.
C15_MembersWithinMax ==
    /\ [](\A g \in DOMAIN groups :
             groups[g] # NoGroup => Len(groups[g].members) <= groups[g].maxMembers)
    /\ [][\A i \in 1..Len(tasks) :
             ( /\ \/ tasks[i].kind = "join" /\ tasks[i].pc = "findGroup"
                  \/ tasks[i].kind = "addMember" /\ tasks[i].pc = "controller"
               /\ Moved(i)
               /\ GroupFindById(tasks[i].groupId) # NoGroup
               /\ Len(GroupFindById(tasks[i].groupId).members)
                      >= GroupFindById(tasks[i].groupId).maxMembers )
             => ( /\ tasks'[i].pc = "done"
                  /\ tasks'[i].result = "400"
                  /\ groups' = groups )]_vars

(***************************************************************************)
(* Quiz attempts (controllers/quizController.js 263-450).                  *)
(*                                                                         *)
(* quiz.save() follows the same versioning as group.save(): the push of a  *)
(* new submission is sent as $push and increments the version without      *)
(* testing it; a submit assigns the answers array of one submission, which *)
(* is sent as $set on that position, tests the loaded version and          *)
(* increments it.                                                          *)
(***************************************************************************)
MaxQuizTasks == 3       \* quiz requests per behaviour

\* quiz ids a request names: the stored quiz and one that never existed
TargetQuizzes == {"q1", "q0"}
\* users taking the quiz
QuizTakers == {"u2", "u3"}
\* the _id Mongoose gives the submission pushed by request i
NewAttemptId(i) == 10 + i
\* attempt ids a submit names: the stored attempt and the attempts the first
\* two requests can start
AttemptIds == {1, 11, 12}
\* answers a submit carries
AnswerLists ==
    { << Answer(0, JsString(<<"B">>)) >>,
      << Answer(0, JsString(<<"A">>)), Answer(1, JsBoolean(TRUE)) >> }
\* values of settings.maxAttempts an update carries
MaxAttemptsValues == {1, 2}

QuizAt(i, kind, pc) ==
    i \in 1..Len(tasks) /\ tasks[i].kind = kind /\ tasks[i].pc = pc

\* userSubmissions of startQuiz 294-296, as positions
UserSubmissions(quiz, userId) ==
    {k \in 1..Len(quiz.submissions) :
        StrictEq(toString(Oid(quiz.submissions[k].userId)), userId)}

\* submittedAttempts of startQuiz 297-299
SubmittedAttempts(quiz, userId) ==
    Cardinality({k \in UserSubmissions(quiz, userId) :
                    quiz.submissions[k].status \in {"submitted", "graded"}})

\* inProgressAttempt of startQuiz 309-311: position of the first one, or 0
InProgressAttempt(quiz, userId) ==
    LET ks == {k \in UserSubmissions(quiz, userId) :
                  quiz.submissions[k].status = "in-progress"}
    IN IF ks = {} THEN 0 ELSE CHOOSE k \in ks : \A j \in ks : k <= j

\* the quiz as a start response shows it (startQuiz 319-333)
StartPayload(quiz, attemptId) ==
    [attemptId |-> attemptId,
     questions |-> [k \in 1..Len(quiz.questions) |->
                       [type |-> quiz.questions[k].type,
                        options |-> quiz.questions[k].options,
                        marks |-> quiz.questions[k].marks]],
     settings |-> quiz.settings]

(***************************************************************************)
(* POST /api/quizzes/:quizId/start   (startQuiz 266-384)                   *)
(***************************************************************************)
RestStartQuiz(u, q) ==
    /\ Len(tasks) < MaxQuizTasks
    /\ tasks' = Append(tasks, [Task("startQuiz", None, u, None, NoId, NoId)
                                   EXCEPT !.pc = "findQuiz", !.arg = [quiz |-> q]])
    /\ UNCHANGED <<groups, messages, nextMsgId, conns, outbox, quizzes>>

\* StartQuizFind with the attempts test off by one
StartQuizFindOffByOne(i) ==
    /\ QuizAt(i, "startQuiz", "findQuiz")
    /\ LET t == tasks[i]
           quiz == QuizFindById(t.arg.quiz)
           userId == Str(t.user)                \* req.user.id
           submittedAttempts == SubmittedAttempts(quiz, userId)
           inProgressAttempt == InProgressAttempt(quiz, userId)
       IN IF quiz = NoQuiz THEN tasks' = Finish(i, "404")
          ELSE IF ~quiz.isActive THEN tasks' = Finish(i, "400-inactive")
          ELSE IF quiz.expired THEN tasks' = Finish(i, "400-expired")
          ELSE IF submittedAttempts > quiz.settings.maxAttempts
          THEN tasks' = Finish(i, "400-attempts")
          ELSE IF inProgressAttempt # 0
          THEN tasks' = [Finish(i, "200-resume") EXCEPT
                            ![i].body = StartPayload(quiz,
                                            quiz.submissions[inProgressAttempt].id)]
          ELSE tasks' = [tasks EXCEPT ![i].pc = "save", ![i].doc = quiz]
    /\ UNCHANGED <<groups, messages, nextMsgId, conns, outbox, quizzes>>

\* Quiz.findById resolves; active, deadline and attempts checks; resume of an
\* in-progress attempt, or push of a new submission and quiz.save() issued
StartQuizFind(i) ==
    /\ QuizAt(i, "startQuiz", "findQuiz")
    /\ LET t == tasks[i]
           quiz == QuizFindById(t.arg.quiz)
           userId == Str(t.user)                \* req.user.id
           submittedAttempts == SubmittedAttempts(quiz, userId)
           inProgressAttempt == InProgressAttempt(quiz, userId)
       IN IF quiz = NoQuiz THEN tasks' = Finish(i, "404")
          ELSE IF ~quiz.isActive THEN tasks' = Finish(i, "400-inactive")
          ELSE IF quiz.expired THEN tasks' = Finish(i, "400-expired")
          ELSE IF submittedAttempts >= quiz.settings.maxAttempts
          THEN tasks' = Finish(i, "400-attempts")
          ELSE IF inProgressAttempt # 0
          THEN tasks' = [Finish(i, "200-resume") EXCEPT
                            ![i].body = StartPayload(quiz,
                                            quiz.submissions[inProgressAttempt].id)]
          ELSE tasks' = [tasks EXCEPT ![i].pc = "save", ![i].doc = quiz]
    /\ UNCHANGED <<groups, messages, nextMsgId, conns, outbox, quizzes>>

\* quiz.save() of the pushed submission resolves or rejects
StartQuizSave(i) ==
    /\ QuizAt(i, "startQuiz", "save")
    /\ LET t == tasks[i]
           attemptNumber == SubmittedAttempts(t.doc, Str(t.user)) + 1
           newSubmission == NewSubmission(NewAttemptId(i), t.user, attemptNumber)
       IN IF QuizFindById(t.arg.quiz) = NoQuiz
          THEN /\ tasks' = Finish(i, "500")
               /\ UNCHANGED quizzes
          ELSE /\ quizzes' = [quizzes EXCEPT
                                 ![t.arg.quiz].submissions = Append(@, newSubmission),
                                 ![t.arg.quiz].v = @ + 1]
               /\ tasks' = [Finish(i, "200-new") EXCEPT
                               ![i].body = StartPayload(t.doc, NewAttemptId(i))]
    /\ UNCHANGED <<groups, messages, nextMsgId, conns, outbox>>

(***************************************************************************)
(* POST /api/quizzes/:quizId/submit   (submitQuiz 389-450)                 *)
(***************************************************************************)
RestSubmitQuiz(u, q, attemptId, answers) ==
    /\ Len(tasks) < MaxQuizTasks
    /\ tasks' = Append(tasks, [Task("submitQuiz", None, u, None, NoId, NoId)
                                   EXCEPT !.pc = "findQuiz",
                                          !.arg = [quiz |-> q, attemptId |-> attemptId,
                                                   answers |-> answers]])
    /\ UNCHANGED <<groups, messages, nextMsgId, conns, outbox, quizzes>>

\* position of the submission submitQuiz 403-405 finds, 0 if none
FindSubmission(quiz, attemptId, userId) ==
    LET ks == {k \in UserSubmissions(quiz, userId) : quiz.submissions[k].id = attemptId}
    IN IF ks = {} THEN 0 ELSE CHOOSE k \in ks : \A j \in ks : k <= j

\* SubmitQuizFind without the test of the submission's status
SubmitQuizFindAnyStatus(i) ==
    /\ QuizAt(i, "submitQuiz", "findQuiz")
    /\ LET t == tasks[i]
           quiz == QuizFindById(t.arg.quiz)
           userId == Str(t.user)                \* req.user.id
           submission == FindSubmission(quiz, t.arg.attemptId, userId)
       IN IF quiz = NoQuiz THEN tasks' = Finish(i, "404")
          ELSE IF submission = 0 THEN tasks' = Finish(i, "404-attempt")
          ELSE IF ScoreThrows(quiz, t.arg.answers) THEN tasks' = Finish(i, "500")
          ELSE tasks' = [tasks EXCEPT ![i].pc = "save",
                                      ![i].doc = submitQuiz(quiz, userId, t.arg.answers),
                                      ![i].msgId = FirstInProgress(quiz, userId)]
    /\ UNCHANGED <<groups, messages, nextMsgId, conns, outbox, quizzes>>

\* Quiz.findById resolves; the submission is looked up by attemptId and user;
\* quiz.submitQuiz runs on the loaded document (a throw of calculateScore is
\* caught as 500) and quiz.save() is issued.  msgId keeps the position of
\* the submission quiz.submitQuiz modified
SubmitQuizFind(i) ==
    /\ QuizAt(i, "submitQuiz", "findQuiz")
    /\ LET t == tasks[i]
           quiz == QuizFindById(t.arg.quiz)
           userId == Str(t.user)                \* req.user.id
           submission == FindSubmission(quiz, t.arg.attemptId, userId)
       IN IF quiz = NoQuiz THEN tasks' = Finish(i, "404")
          ELSE IF submission = 0 THEN tasks' = Finish(i, "404-attempt")
          ELSE IF quiz.submissions[submission].status # "in-progress"
          THEN tasks' = Finish(i, "400-submitted")
          ELSE IF ScoreThrows(quiz, t.arg.answers) THEN tasks' = Finish(i, "500")
          ELSE tasks' = [tasks EXCEPT ![i].pc = "save",
                                      ![i].doc = submitQuiz(quiz, userId, t.arg.answers),
                                      ![i].msgId = FirstInProgress(quiz, userId)]
    /\ UNCHANGED <<groups, messages, nextMsgId, conns, outbox, quizzes>>

\* quiz.save() resolves, or rejects on a version conflict or a missing
\* document; the response reports the submission found by attemptId
SubmitQuizSave(i) ==
    /\ QuizAt(i, "submitQuiz", "save")
    /\ LET t == tasks[i]
           stored == QuizFindById(t.arg.quiz)
           k == t.msgId
           submission == FindSubmission(t.doc, t.arg.attemptId, Str(t.user))
       IN IF stored = NoQuiz \/ stored.v # t.doc.v
          THEN /\ tasks' = Finish(i, "500")
               /\ UNCHANGED quizzes
          ELSE /\ quizzes' = [quizzes EXCEPT
                                 ![t.arg.quiz].submissions[k] = t.doc.submissions[k],
                                 ![t.arg.quiz].analytics = t.doc.analytics,
                                 ![t.arg.quiz].v = @ + 1]
               /\ tasks' = [Finish(i, "200") EXCEPT
                               ![i].body =
                                   [score |-> t.doc.submissions[submission].totalScore,
                                    percentage |-> t.doc.submissions[submission].percentage,
                                    totalMarks |-> t.doc.totalMarks]]
    /\ UNCHANGED <<groups, messages, nextMsgId, conns, outbox>>

(***************************************************************************)
(* PUT /api/quizzes/:quizId with {settings}   (updateQuiz 156-218): the    *)
(* creator or a group admin replaces the settings by findByIdAndUpdate     *)
(***************************************************************************)
UpdateQuizSettings(u, q, maxAttempts) ==
    /\ QuizFindById(q) # NoQuiz
    /\ GroupFindById(quizzes[q].groupId) # NoGroup
    /\ \/ StrictEq(toString(Oid(quizzes[q].createdBy)), Str(u))
       \/ isAdmin(GroupFindById(quizzes[q].groupId), Str(u))
    /\ quizzes[q].settings.maxAttempts # maxAttempts
    /\ quizzes' = [quizzes EXCEPT ![q].settings = [maxAttempts |-> maxAttempts]]
    /\ UNCHANGED <<groups, messages, nextMsgId, conns, tasks, outbox>>

\* the deadline of the quiz passes: from now on quiz.deadline < new Date()
DeadlinePasses(q) ==
    /\ QuizFindById(q) # NoQuiz
    /\ ~quizzes[q].expired
    /\ quizzes' = [quizzes EXCEPT ![q].expired = TRUE]
    /\ UNCHANGED <<groups, messages, nextMsgId, conns, tasks, outbox>>

NextQuiz ==
    \/ \E u \in QuizTakers, q \in TargetQuizzes : RestStartQuiz(u, q)
    \/ \E i \in 1..MaxQuizTasks : StartQuizFind(i)
    \/ \E i \in 1..MaxQuizTasks : StartQuizSave(i)
    \/ \E u \in QuizTakers, q \in TargetQuizzes, a \in AttemptIds, ans \in AnswerLists :
           RestSubmitQuiz(u, q, a, ans)
    \/ \E i \in 1..MaxQuizTasks : SubmitQuizFind(i)
    \/ \E i \in 1..MaxQuizTasks : SubmitQuizSave(i)
    \/ \E u \in Users, n \in MaxAttemptsValues : UpdateQuizSettings(u, "q1", n)
    \/ DeadlinePasses("q1")

SpecQuiz == Init /\ [][NextQuiz]_vars

(***************************************************************************)
(* Properties of quiz attempts (specification SpecQuiz)                    *)
(***************************************************************************)
\* the stored submissions of user u in quiz q with one of the given statuses
StoredAttempts(q, u, statuses) ==
    {k \in 1..Len(quizzes[q].submissions) :
        /\ quizzes[q].submissions[k].userId = u
        /\ quizzes[q].submissions[k].status \in statuses}

\* a start request at the step that reads the quiz and decides
StartDecides(i) ==
    /\ tasks[i].kind = "startQuiz" /\ tasks[i].pc = "findQuiz" /\ Moved(i)
    /\ QuizFindById(tasks[i].arg.quiz) # NoQuiz

\* a submit request at the step that reads the quiz and decides
SubmitDecides(i) ==
    /\ tasks[i].kind = "submitQuiz" /\ tasks[i].pc = "findQuiz" /\ Moved(i)
    /\ QuizFindById(tasks[i].arg.quiz) # NoQuiz

\* C16: a start on an open quiz (active, deadline not passed) by a user who
\* has an in-progress submission ends with a resume that names that
\* submission and stores nothing, whatever the user's number of submitted or
\* graded attempts and the current maxAttempts.
C16_ResumeBeforeAttemptsCheck ==
    [][\A i \in 1..Len(tasks) :
          ( /\ StartDecides(i)
            /\ quizzes[tasks[i].arg.quiz].isActive
            /\ ~quizzes[tasks[i].arg.quiz].expired
            /\ StoredAttempts(tasks[i].arg.quiz, tasks[i].user, {"in-progress"}) # {} )
          => ( /\ tasks'[i].pc = "done"
               /\ tasks'[i].result = "200-resume"
               /\ \E k \in StoredAttempts(tasks[i].arg.quiz, tasks[i].user, {"in-progress"}) :
                     tasks'[i].body.attemptId = quizzes[tasks[i].arg.quiz].submissions[k].id
               /\ quizzes' = quizzes )]_vars

\* a user who has used up the attempts and has none in progress
Exhausted(q, u) ==
    /\ Cardinality(StoredAttempts(q, u, {"submitted", "graded"}))
          >= quizzes[q].settings.maxAttempts
    /\ StoredAttempts(q, u, {"in-progress"}) = {}

\* C17 as stated: a start by a user who has maxAttempts submitted or graded
\* submissions and none in progress fails with AttemptsExhausted and adds no
\* submission.
C17_ExhaustedStartFails ==
    [][\A i \in 1..Len(tasks) :
          ( StartDecides(i) /\ Exhausted(tasks[i].arg.quiz, tasks[i].user) )
          => ( /\ tasks'[i].pc = "done"
               /\ tasks'[i].result = "400-attempts"
               /\ quizzes' = quizzes )]_vars

\* C17 amended: such a start fails and adds no submission; the failure is
\* AttemptsExhausted while the quiz is active and its deadline has not
\* passed, and the quiz's Inactive failure otherwise.
C17_ExhaustedStartFailsOrInactive ==
    [][\A i \in 1..Len(tasks) :
          ( StartDecides(i) /\ Exhausted(tasks[i].arg.quiz, tasks[i].user) )
          => ( /\ tasks'[i].pc = "done"
               /\ tasks'[i].result =
                     IF ~quizzes[tasks[i].arg.quiz].isActive THEN "400-inactive"
                     ELSE IF quizzes[tasks[i].arg.quiz].expired THEN "400-expired"
                     ELSE "400-attempts"
               /\ quizzes' = quizzes )]_vars

\* u2, whose two attempts are graded, was refused a third
C17_Witness ==
    \E i \in 1..Len(tasks), j \in 1..Len(tasks) :
        /\ tasks[i].kind = "submitQuiz" /\ tasks[i].user = "u2" /\ tasks[i].result = "200"
        /\ tasks[j].kind = "startQuiz" /\ tasks[j].user = "u2" /\ j > i
        /\ tasks[j].pc = "done" /\ tasks[j].result = "400-attempts"
        /\ Cardinality(StoredAttempts("q1", "u2", {"graded"})) = 2
        /\ quizzes["q1"].settings.maxAttempts = 2

\* C18: a submit whose attemptId matches no submission of the caller fails
\* with NotFound, one whose submission is not in progress fails with
\* AlreadySubmitted, and neither changes the quiz (submissions, analytics).
C18_SubmitRejections ==
    [][\A i \in 1..Len(tasks) :
          SubmitDecides(i) =>
             LET q == tasks[i].arg.quiz
                 matching == {k \in 1..Len(quizzes[q].submissions) :
                                 /\ quizzes[q].submissions[k].id = tasks[i].arg.attemptId
                                 /\ quizzes[q].submissions[k].userId = tasks[i].user}
             IN /\ matching = {} =>
                      ( /\ tasks'[i].pc = "done" /\ tasks'[i].result = "404-attempt"
                        /\ quizzes' = quizzes )
                /\ ( /\ matching # {}
                     /\ \A k \in matching : quizzes[q].submissions[k].status # "in-progress" )
                   => ( /\ tasks'[i].pc = "done" /\ tasks'[i].result = "400-submitted"
                        /\ quizzes' = quizzes )]_vars

\* one submit named an attempt of another user, another a graded attempt
C18_Witness ==
    \E i \in 1..Len(tasks), j \in 1..Len(tasks) :
        /\ tasks[i].kind = "submitQuiz" /\ tasks[i].user = "u3"
        /\ tasks[i].arg.attemptId = 1 /\ tasks[i].result = "404-attempt"
        /\ tasks[j].kind = "submitQuiz" /\ tasks[j].user = "u2"
        /\ tasks[j].arg.attemptId = 1 /\ tasks[j].result = "400-submitted"

\* C19: a successful submit of attempt A leaves A graded, with the answers
\* of the request and submittedAt set, having found it in progress; a stored
\* submission changes only from in-progress to graded, and once graded it
\* never changes (answers, totalScore, percentage, status).
C19_GradedOnce ==
    [][/\ \A i \in 1..Len(tasks) :
             ( /\ tasks[i].kind = "submitQuiz" /\ tasks[i].pc = "save"
               /\ tasks'[i].result = "200" )
             => LET q == tasks[i].arg.quiz
                IN \E k \in 1..Len(quizzes'[q].submissions) :
                      /\ quizzes'[q].submissions[k].id = tasks[i].arg.attemptId
                      /\ quizzes[q].submissions[k].status = "in-progress"
                      /\ quizzes'[q].submissions[k].status = "graded"
                      /\ quizzes'[q].submissions[k].submittedAt
                      /\ [a \in 1..Len(quizzes'[q].submissions[k].answers) |->
                             quizzes'[q].submissions[k].answers[a].answer]
                            = [a \in 1..Len(tasks[i].arg.answers) |->
                                  tasks[i].arg.answers[a].answer]
       /\ \A q \in QuizIds :
             \A k \in 1..Len(quizzes[q].submissions) :
                /\ quizzes'[q].submissions[k] # quizzes[q].submissions[k]
                      => ( /\ quizzes[q].submissions[k].status = "in-progress"
                           /\ quizzes'[q].submissions[k].status = "graded" )
                /\ quizzes[q].submissions[k].status = "graded"
                      => quizzes'[q].submissions[k] = quizzes[q].submissions[k]]_vars

(***************************************************************************)
(* Scoring (Quiz.js 226-270): quizzes of two questions drawn from every    *)
(* type with marks 0 or 2, one attempt of u2 in progress, and one submit   *)
(* per behaviour with answers drawn from AnswerChoices.                    *)
(***************************************************************************)
QuestionMarks == {0, 2}

QuestionChoices ==
    UNION { { Question("multiple-choice", JsString(<<"B">>), m),
              Question("true-false", JsBoolean(TRUE), m),
              Question("short-answer", JsString(<<"A", "b">>), m),
              Question("essay", JsUndefined, m) } : m \in QuestionMarks }

\* answers as quizValidation.submit accepts them: a string, a number or a
\* boolean for a question index >= 0 (index 2 names no question)
AnswerChoices ==
    { Answer(index, value) :
        index \in 0..2,
        value \in { JsString(<<"B">>), JsString(<<" ", "a", "B", " ">>),
                    JsString(<<"t", "r", "u", "e">>), JsBoolean(TRUE), JsNumber(1) } }

ScoreAnswerLists ==
    { <<a>> : a \in AnswerChoices } \cup { <<a, b>> : a \in AnswerChoices, b \in AnswerChoices }

InitScore ==
    /\ groups = InitGroups
    /\ messages = InitMessages
    /\ nextMsgId = 3
    /\ conns = [c \in Conns |->
                  [state |-> "authenticated", user |-> ConnUser[c],
                   rooms |-> {UserRoom(ConnUser[c])}]]
    /\ tasks = <<>>
    /\ outbox = <<>>
    /\ \E first \in QuestionChoices, second \in QuestionChoices :
          quizzes = [q \in QuizIds |->
                        [NewQuiz("g1", "u1", <<first, second>>, 1)
                            EXCEPT !.submissions = <<NewSubmission(1, "u2", 1)>>,
                                   !.v = 1]]

\* the one submit of the behaviour
ScoreSubmit(answers) ==
    /\ tasks = <<>>
    /\ RestSubmitQuiz("u2", "q1", 1, answers)

NextScore ==
    \/ \E answers \in ScoreAnswerLists : ScoreSubmit(answers)
    \/ SubmitQuizFind(1)
    \/ SubmitQuizSave(1)

SpecScore == InitScore /\ [][NextScore]_vars

\* equal ignoring case and surrounding whitespace
EqualIgnoringCase(x, y) ==
    /\ x.t = "string" /\ y.t = "string"
    /\ trim(toLowerCase(x.cs)) = trim(toLowerCase(y.cs))

\* whether an answer to a question is correct, by the type of the question
CorrectAnswer(question, value) ==
    CASE question.type \in {"multiple-choice", "true-false"} -> value = question.correctAnswer
      [] question.type = "short-answer" -> EqualIgnoringCase(value, question.correctAnswer)
      [] OTHER -> FALSE

\* C20: in every graded submission each answer to a question of the quiz is
\* marked correct by the rule of the question's type, marksObtained is the
\* question's marks if correct and 0 otherwise, totalScore is the sum of
\* marksObtained, and percentage is totalScore / totalMarks * 100 (0 when
\* totalMarks is 0).
C20_ScoringRules ==
    \A q \in QuizIds : \A k \in 1..Len(quizzes[q].submissions) :
        LET quiz == quizzes[q]
            sub == quiz.submissions[k]
            scored == {a \in 1..Len(sub.answers) : HasQuestion(quiz, sub.answers[a])}
            question(a) == quiz.questions[sub.answers[a].questionIndex + 1]
        IN sub.status = "graded" =>
              /\ \A a \in scored :
                    /\ sub.answers[a].isCorrect = CorrectAnswer(question(a), sub.answers[a].answer)
                    /\ sub.answers[a].marksObtained =
                          IF sub.answers[a].isCorrect THEN question(a).marks ELSE 0
              /\ sub.totalScore = SumSeq([a \in 1..Len(sub.answers) |->
                                     IF a \in scored THEN sub.answers[a].marksObtained ELSE 0])
              /\ sub.percentage = IF quiz.totalMarks = 0 THEN Rat(0, 1)
                                  ELSE Rat(sub.totalScore * 100, quiz.totalMarks)

(***************************************************************************)
(* What a start shows of the answer key (startQuiz 313-375): two quizzes   *)
(* q1 and q2 of one multiple-choice question that differ at most in the    *)
(* answer key (correctAnswer, options[].isCorrect), started by u2.         *)
(***************************************************************************)
LeakQuizzes == {"q1", "q2"}

\* the multiple-choice question with every answer key
KeyedQuestions ==
    { [Question("multiple-choice", JsString(<<correct>>), 1)
          EXCEPT !.options = <<Option("A", a), Option("B", b)>>] :
        correct \in {"A", "B"}, a \in BOOLEAN, b \in BOOLEAN }

InitLeak ==
    /\ groups = InitGroups
    /\ messages = InitMessages
    /\ nextMsgId = 3
    /\ conns = [c \in Conns |->
                  [state |-> "authenticated", user |-> ConnUser[c],
                   rooms |-> {UserRoom(ConnUser[c])}]]
    /\ tasks = <<>>
    /\ outbox = <<>>
    /\ \E first \in KeyedQuestions, second \in KeyedQuestions :
          quizzes = [q \in LeakQuizzes |->
                        NewQuiz("g1", "u1", <<IF q = "q1" THEN first ELSE second>>, 1)]

NextLeak ==
    \/ \E q \in LeakQuizzes : RestStartQuiz("u2", q)
    \/ \E i \in 1..MaxQuizTasks : StartQuizFind(i)
    \/ \E i \in 1..MaxQuizTasks : StartQuizSave(i)

SpecLeak == InitLeak /\ [][NextLeak]_vars

\* a start that was answered with a payload
StartAnswered(i) ==
    /\ tasks[i].kind = "startQuiz" /\ tasks[i].pc = "done"
    /\ tasks[i].result \in {"200-new", "200-resume"}

\* C21: the questions and settings a start returns (new attempt or resume)
\* are the same for two quizzes that differ only in the answer key.
C21_StartPayloadHidesKey ==
    \A i \in 1..Len(tasks), j \in 1..Len(tasks) :
        (StartAnswered(i) /\ StartAnswered(j))
        => /\ tasks[i].body.questions = tasks[j].body.questions
           /\ tasks[i].body.settings = tasks[j].body.settings

(***************************************************************************)
(* Handshakes with the credential kept on the connection (socket.js 15-40):*)
(* c1 is connected as u1 in the room of g1, c2 and c3 are not yet open.    *)
(***************************************************************************)
HandshakeTokens == {NoToken, BadToken, StaleToken, TokenOf("u2"), TokenOf("u4")}

\* a client opens the connection with socket.handshake.auth.token = token
SocketOpen(c, token) ==
    /\ conns[c].state = "closed"
    /\ conns' = [conns EXCEPT ![c].state = "connecting", ![c].token = token]
    /\ UNCHANGED <<groups, messages, nextMsgId, tasks, outbox, quizzes>>

\* SocketAuth without the rejection of a token that gives no user
SocketAuthNoCheck(c) ==
    /\ conns[c].state = "connecting"
    /\ LET token == conns[c].token
           user == IF token.present THEN getUserFromToken(token) ELSE None
       IN IF ~token.present
          THEN conns' = [conns EXCEPT ![c].state = "rejected"]
          ELSE conns' = [conns EXCEPT ![c].state = "authenticated", ![c].user = user,
                                      ![c].rooms = {UserRoom(user)}]
    /\ UNCHANGED <<groups, messages, nextMsgId, tasks, outbox, quizzes>>

\* the io.use middleware ends: next(error), or next() and the 'connection'
\* handler joins the user's own room
SocketAuth(c) ==
    /\ conns[c].state = "connecting"
    /\ LET token == conns[c].token
           user == IF token.present THEN getUserFromToken(token) ELSE None
       IN IF ~token.present \/ user = None
          THEN conns' = [conns EXCEPT ![c].state = "rejected"]
          ELSE conns' = [conns EXCEPT ![c].state = "authenticated", ![c].user = user,
                                      ![c].rooms = {UserRoom(user)}]
    /\ UNCHANGED <<groups, messages, nextMsgId, tasks, outbox, quizzes>>

InitHandshake ==
    /\ groups = InitGroups
    /\ messages = InitMessages
    /\ nextMsgId = 3
    /\ conns = [c \in Conns |->
                  IF c = "c1"
                  THEN [state |-> "authenticated", user |-> "u1", token |-> TokenOf("u1"),
                        rooms |-> {UserRoom("u1"), GroupRoom("g1")}]
                  ELSE [state |-> "closed", user |-> None, token |-> NoToken, rooms |-> {}]]
    /\ tasks = <<>>
    /\ outbox = <<>>
    /\ quizzes = InitQuizzes

NextHandshake ==
    \/ \E c \in Conns, token \in HandshakeTokens : SocketOpen(c, token)
    \/ \E c \in Conns : SocketAuth(c)
    \/ \E c \in Conns : JoinGroups(c, {"g1"})
    \/ \E c \in Conns : SendMessage(c, "g1", NoId)
    \/ \E i \in 1..MaxTasks : SendMessageAuthorize(i)
    \/ \E i \in 1..MaxTasks : SendMessageCreate(i)
    \/ \E i \in 1..MaxTasks : SendMessageBroadcast(i)
    \/ \E c \in Conns : TypingStart(c, "g1")

SpecHandshake == InitHandshake /\ [][NextHandshake]_vars

\* the credential gives no user: none, malformed or expired, or of no account
NoUserCredential(token) ==
    \/ ~token.present
    \/ ~token.valid
    \/ token.id \notin Users \cup InactiveUsers

\* C22: a connection opened with no credential, or with one that is
\* malformed, expired or resolves to no user, is never authenticated: it is
\* rejected, it is in no room, no handler runs for it and nothing is emitted
\* on its behalf.
C22_BadCredentialRejected ==
    \A c \in Conns :
        (conns[c].state # "closed" /\ NoUserCredential(conns[c].token))
        => /\ conns[c].state \in {"connecting", "rejected"}
           /\ conns[c].rooms = {}
           /\ \A i \in 1..Len(tasks) : tasks[i].conn # c
           /\ \A k \in 1..Len(outbox) : outbox[k].from # c /\ c \notin outbox[k].to

\* c2 was rejected for its credential while u1's connection broadcast
C22_Witness ==
    /\ conns["c2"].state = "rejected"
    /\ conns["c2"].token \in {BadToken, StaleToken}
    /\ conns["c3"].state = "rejected"
    /\ conns["c3"].token = NoToken
    /\ \E k \in 1..Len(outbox) : outbox[k].event = "new-message" /\ outbox[k].from = "c1"

\* C23: a connection whose credential resolves to an inactive account is
\* rejected and never authenticated.
C23_InactiveAccountRejected ==
    \A c \in Conns :
        (conns[c].state # "closed" /\ conns[c].token.valid
            /\ conns[c].token.id \in InactiveUsers)
        => conns[c].state \in {"connecting", "rejected"}

(***************************************************************************)
(* Failures of real-time handlers (socket.js 42-152, server.js 102-110).   *)
(* A handler that throws before its first await ends in the same step as   *)
(* the event arrives.                                                      *)
(***************************************************************************)
\* a handler invocation that ended with result res as soon as it began
Ended(kind, c, res) ==
    [Task(kind, c, conns[c].user, None, NoId, NoId) EXCEPT !.pc = "done", !.result = res]

\* 'mark-message-read' with no payload: `const { messageId } = data` throws
\* inside the try; the catch logs and emits nothing (socket.js 135-137)
MarkMessageReadNoPayload(c) ==
    /\ Connected(c)
    /\ Len(tasks) < MaxTasks
    /\ tasks' = Append(tasks, Ended("sockRead", c, "error"))
    /\ UNCHANGED <<groups, messages, nextMsgId, conns, outbox, quizzes>>

\* 'join-groups' with a payload that is no array: groupIds.forEach throws
\* inside the try; the catch logs and emits nothing (socket.js 48-50)
JoinGroupsMalformed(c) ==
    /\ Connected(c)
    /\ Len(tasks) < MaxTasks
    /\ tasks' = Append(tasks, Ended("sockJoin", c, "error"))
    /\ UNCHANGED <<groups, messages, nextMsgId, conns, outbox, quizzes>>

\* 'send-message' with no payload: the destructuring throws inside the try
\* and the catch emits 'error' to the socket (socket.js 99-102)
SendMessageNoPayload(c) ==
    /\ Connected(c)
    /\ Len(tasks) < MaxTasks
    /\ tasks' = Append(tasks, Ended("sockSend", c, "error"))
    /\ outbox' = Append(outbox,
          Emission("error", Len(tasks) + 1, c, NoRoom, {c}, NoId))
    /\ UNCHANGED <<groups, messages, nextMsgId, conns, quizzes>>

\* 'typing-start' with no payload: `const { groupId } = data` throws in a
\* listener that has no try; the exception is uncaught, the handler of
\* 'uncaughtException' calls process.exit(1) and every connection is lost
TypingStartNoPayload(c) ==
    /\ Connected(c)
    /\ Len(tasks) < MaxTasks
    /\ tasks' = Append(tasks, Ended("sockTyping", c, "error"))
    /\ conns' = [d \in Conns |-> [state |-> "closed", user |-> None, rooms |-> {}]]
    /\ UNCHANGED <<groups, messages, nextMsgId, outbox, quizzes>>

NextFailure ==
    \/ \E c \in Conns, g \in TargetGroups : SendMessage(c, g, NoId)
    \/ \E i \in 1..MaxTasks : SendMessageAuthorize(i)
    \/ \E i \in 1..MaxTasks : SendMessageCreate(i)
    \/ \E i \in 1..MaxTasks : SendMessageBroadcast(i)
    \/ \E c \in Conns : SendMessageNoPayload(c)
    \/ \E c \in Conns : MarkMessageReadNoPayload(c)
    \/ \E c \in Conns : JoinGroupsMalformed(c)
    \/ \E c \in Conns : TypingStartNoPayload(c)

SpecFailure == Init /\ [][NextFailure]_vars

\* the handler invocation i of a connection ends with a failure in this step
FailsNow(i) ==
    /\ i \in 1..Len(tasks')
    /\ tasks'[i].conn # None
    /\ tasks'[i].pc = "done" /\ tasks'[i].result = "error"
    /\ i \in 1..Len(tasks) => tasks[i].pc # "done"

\* C24: when the handling of a real-time event fails, exactly an 'error'
\* event is emitted, to the originating connection only, and every
\* connection stays as it was (the server goes on serving).
C24_FailureIsScopedError ==
    [][\A i \in 1..MaxTasks :
          FailsNow(i) =>
             /\ Len(outbox') = Len(outbox) + 1
             /\ outbox'[Len(outbox')].event = "error"
             /\ outbox'[Len(outbox')].to = {tasks'[i].conn}
             /\ conns' = conns]_vars

(***************************************************************************)
(* Rooms and membership: the member u2 (c2) and the non-member u3 (c3)     *)
(* subscribe to g1, leave it and type in it; u1 (c1) and u3 send to it.    *)
(***************************************************************************)
NextRooms ==
    \/ \E c \in {"c2", "c3"} : JoinGroups(c, {"g1"})
    \/ \E c \in {"c2", "c3"} : LeaveGroup(c, "g1")
    \/ \E c \in {"c2", "c3"} : TypingStart(c, "g1")
    \/ \E c \in {"c1", "c3"} : SendMessage(c, "g1", NoId)
    \/ \E i \in 1..MaxTasks : SendMessageAuthorize(i)
    \/ \E i \in 1..MaxTasks : SendMessageCreate(i)
    \/ \E i \in 1..MaxTasks : SendMessageBroadcast(i)

SpecRooms == Init /\ [][NextRooms]_vars

\* the user of connection c is a member of group g
ConnIsMember(c, g) == isMember(groups[g], Oid(conns[c].user))

\* C25: a connection enters the room of a group only if its user is a
\* member, and a broadcast into the room of a group (new-message,
\* user-typing) is made only for a member and received only by connections
\* of members.
C25_RealTimeActionsByMembers ==
    [][/\ \A c \in Conns, g \in GroupIds :
             (GroupRoom(g) \in conns'[c].rooms /\ GroupRoom(g) \notin conns[c].rooms)
             => ConnIsMember(c, g)
       /\ Len(outbox') > Len(outbox) =>
             LET e == outbox'[Len(outbox')]
             IN \A g \in GroupIds :
                   (e.room = GroupRoom(g) /\ e.event \in {"new-message", "user-typing"})
                   => /\ ConnIsMember(e.from, g)
                      /\ \A d \in e.to : ConnIsMember(d, g)]_vars

(***************************************************************************)
(* Further properties of quiz attempts (specification SpecQuiz)            *)
(***************************************************************************)
\* C26: a start or submit by a user who is not a member of the quiz's group
\* is rejected at its first step and the quizzes stay as they are.
C26_QuizOperationsByMembers ==
    [][\A i \in 1..Len(tasks) :
          ( /\ tasks[i].kind \in {"startQuiz", "submitQuiz"}
            /\ Moved(i)
            /\ QuizFindById(tasks[i].arg.quiz) # NoQuiz
            /\ ~isMember(groups[quizzes[tasks[i].arg.quiz].groupId], Oid(tasks[i].user)) )
          => ( /\ tasks'[i].pc = "done"
               /\ tasks'[i].result \notin {"200", "200-new", "200-resume"}
               /\ quizzes' = quizzes )]_vars

\* C27: in every state each user has at most one in-progress submission in
\* a quiz.
C27_OneInProgress ==
    \A q \in QuizIds, u \in QuizTakers :
        Cardinality(StoredAttempts(q, u, {"in-progress"})) <= 1

\* C28: in every state the number of submitted or graded submissions of
\* each user in a quiz is at most settings.maxAttempts.
C28_AttemptsWithinMax ==
    \A q \in QuizIds, u \in QuizTakers :
        Cardinality(StoredAttempts(q, u, {"submitted", "graded"}))
            <= quizzes[q].settings.maxAttempts

\* C29: a successful submit changes exactly the submission its attemptId
\* names: that one holds the graded answers of the request, its score is the
\* score reported, and every other submission is as before.
C29_SubmitGradesNamedAttempt ==
    [][\A i \in 1..Len(tasks) :
          ( /\ tasks[i].kind = "submitQuiz" /\ tasks[i].pc = "save"
            /\ tasks'[i].result = "200" )
          => LET q == tasks[i].arg.quiz
             IN \A k \in 1..Len(quizzes[q].submissions) :
                   IF quizzes[q].submissions[k].id = tasks[i].arg.attemptId
                   THEN /\ quizzes'[q].submissions[k]
                              = calculateScore(quizzes[q],
                                   [quizzes[q].submissions[k] EXCEPT
                                       !.answers = tasks[i].arg.answers,
                                       !.submittedAt = TRUE])
                        /\ tasks'[i].body.score = quizzes'[q].submissions[k].totalScore
                        /\ tasks'[i].body.percentage = quizzes'[q].submissions[k].percentage
                   ELSE quizzes'[q].submissions[k] = quizzes[q].submissions[k]]_vars

(***************************************************************************)
(* Further properties of scoring (specification SpecScore)                 *)
(***************************************************************************)
\* C30: when the scoring of a submit fails, the stored submission is in
\* status submitted and holds the answers of the request.
C30_FailedScoringKeepsSubmitted ==
    [][\A i \in 1..Len(tasks) :
          ( /\ tasks[i].kind = "submitQuiz" /\ tasks[i].pc = "findQuiz"
            /\ QuizFindById(tasks[i].arg.quiz) # NoQuiz
            /\ FindSubmission(quizzes[tasks[i].arg.quiz], tasks[i].arg.attemptId,
                              Str(tasks[i].user)) # 0
            /\ tasks'[i].result = "500" )
          => LET q == tasks[i].arg.quiz
                 k == FindSubmission(quizzes[q], tasks[i].arg.attemptId, Str(tasks[i].user))
             IN /\ quizzes'[q].submissions[k].status = "submitted"
                /\ quizzes'[q].submissions[k].answers = tasks[i].arg.answers]_vars

(***************************************************************************)
(* POST /api/quizzes   (createQuiz 93-151) and PUT /api/quizzes/:quizId    *)
(* with {questions}   (updateQuiz 156-218)                                 *)
(***************************************************************************)
\* the _id of the quiz created by request i
CreatedQuizId(i) == IF i = 1 THEN "q2" ELSE IF i = 2 THEN "q3" ELSE "q4"

\* ids a quiz can have in the specifications that create quizzes
AllQuizIds == {"q1", "q2", "q3", "q4"}

\* group.settings.allowQuizCreation: the schema default (Group.js 55-58),
\* which no operation of this model changes
AllowQuizCreation(group) == TRUE

RestCreateQuiz(u, g, questions) ==
    /\ Len(tasks) < MaxTasks
    /\ tasks' = Append(tasks, [Task("createQuiz", None, u, g, NoId, NoId)
                                   EXCEPT !.pc = "findGroup",
                                          !.arg = [questions |-> questions]])
    /\ UNCHANGED <<groups, messages, nextMsgId, conns, outbox, quizzes>>

\* Group.findById resolves; the allowQuizCreation check; Quiz.create is issued
CreateQuizFindGroup(i) ==
    /\ At(i, "createQuiz", "findGroup")
    /\ LET t == tasks[i]
           group == GroupFindById(t.groupId)
       IN IF group = NoGroup THEN tasks' = Finish(i, "404")
          ELSE IF ~AllowQuizCreation(group) /\ UserRole[t.user] # "admin"
          THEN tasks' = Finish(i, "403")
          ELSE tasks' = [tasks EXCEPT ![i].pc = "create"]
    /\ UNCHANGED <<groups, messages, nextMsgId, conns, outbox, quizzes>>

\* Quiz.create resolves: pre('save') sets totalMarks; Message.create is issued
CreateQuizCreate(i) ==
    /\ At(i, "createQuiz", "create")
    /\ LET t == tasks[i] IN
          /\ quizzes' = [quizzes EXCEPT ![CreatedQuizId(i)] =
                            NewQuiz(t.groupId, t.user, t.arg.questions, 1)]
          /\ tasks' = [tasks EXCEPT ![i].pc = "message"]
    /\ UNCHANGED <<groups, messages, nextMsgId, conns, outbox>>

\* Message.create of the 'quiz_posted' system message resolves
CreateQuizMessage(i) ==
    /\ At(i, "createQuiz", "message")
    /\ LET t == tasks[i] IN
          /\ messages' = Append(messages,
                 NewMessage(nextMsgId, t.groupId, t.user, "system", NoId))
          /\ nextMsgId' = nextMsgId + 1
          /\ tasks' = Finish(i, "201")
    /\ UNCHANGED <<groups, conns, outbox, quizzes>>

\* updateQuiz with questions: refused once the quiz has submissions and the
\* questions differ; written by findByIdAndUpdate, which runs no pre('save')
UpdateQuizQuestions(u, q, questions) ==
    /\ QuizFindById(q) # NoQuiz
    /\ GroupFindById(quizzes[q].groupId) # NoGroup
    /\ \/ StrictEq(toString(Oid(quizzes[q].createdBy)), Str(u))
       \/ isAdmin(GroupFindById(quizzes[q].groupId), Str(u))
    /\ quizzes[q].submissions = <<>>
    /\ quizzes[q].questions # questions
    /\ quizzes' = [quizzes EXCEPT ![q].questions = questions]
    /\ UNCHANGED <<groups, messages, nextMsgId, conns, tasks, outbox>>

(***************************************************************************)
(* totalMarks: quiz q1 of the deployment before any attempt, creations in  *)
(* g1 and updates of q1's questions.                                       *)
(***************************************************************************)
MarksChoices == {0, 1, 2}

\* question lists a creation or an update carries (at least one question)
MarksQuestionLists ==
    { <<Question("multiple-choice", JsString(<<"B">>), m)>> : m \in MarksChoices }
    \cup { <<Question("multiple-choice", JsString(<<"B">>), m),
             Question("true-false", JsBoolean(TRUE), n)>> :
              m \in MarksChoices, n \in MarksChoices }

InitMarks ==
    /\ groups = InitGroups
    /\ messages = InitMessages
    /\ nextMsgId = 3
    /\ conns = [c \in Conns |->
                  [state |-> "authenticated", user |-> ConnUser[c],
                   rooms |-> {UserRoom(ConnUser[c])}]]
    /\ tasks = <<>>
    /\ outbox = <<>>
    /\ quizzes = [q \in AllQuizIds |->
                     IF q = "q1" THEN NewQuiz("g1", "u1", ScenarioQuestions, 2) ELSE NoQuiz]

NextMarks ==
    \/ \E u \in {"u1", "u2"}, g \in TargetGroups, questions \in MarksQuestionLists :
           RestCreateQuiz(u, g, questions)
    \/ \E i \in 1..MaxTasks : CreateQuizFindGroup(i)
    \/ \E i \in 1..MaxTasks : CreateQuizCreate(i)
    \/ \E i \in 1..MaxTasks : CreateQuizMessage(i)
    \/ \E u \in Users, questions \in MarksQuestionLists :
           UpdateQuizQuestions(u, "q1", questions)

SpecMarks == InitMarks /\ [][NextMarks]_vars

\* C31: in every state the totalMarks of each quiz is the sum of the marks
\* of its questions, questions with marks 0 included.
C31_TotalMarksIsSum ==
    \A q \in DOMAIN quizzes :
        quizzes[q] # NoQuiz =>
            quizzes[q].totalMarks =
                SumSeq([k \in 1..Len(quizzes[q].questions) |-> quizzes[q].questions[k].marks])

(***************************************************************************)
(* Analytics (specification SpecQuiz)                                      *)
(***************************************************************************)
\* the graded submissions of a quiz, as positions
GradedOf(quiz) ==
    {k \in 1..Len(quiz.submissions) : quiz.submissions[k].status = "graded"}

\* the graded submissions that answered question index `index`
AnsweredBy(quiz, index) ==
    {k \in GradedOf(quiz) :
        \E a \in 1..Len(quiz.submissions[k].answers) :
            quiz.submissions[k].answers[a].questionIndex = index}

\* the first answer of submission k to question index `index`
FirstAnswer(quiz, k, index) ==
    LET answers == quiz.submissions[k].answers
    IN answers[CHOOSE a \in 1..Len(answers) :
                  /\ answers[a].questionIndex = index
                  /\ \A b \in 1..(a - 1) : answers[b].questionIndex # index]

\* sum of f over a finite set of positions
RECURSIVE SumOver(_, _)
SumOver(set, f) ==
    IF set = {} THEN 0
    ELSE LET k == CHOOSE x \in set : TRUE IN f[k] + SumOver(set \ {k}, f)

\* sum of the percentages of a set of submissions, as a fraction
RECURSIVE PercentSum(_, _)
PercentSum(quiz, set) ==
    IF set = {} THEN Rat(0, 1)
    ELSE LET k == CHOOSE x \in set : TRUE
         IN RatAdd(quiz.submissions[k].percentage, PercentSum(quiz, set \ {k}))

\* C32: the analytics of a quiz equal a recomputation from its graded
\* submissions: their count, the average, highest and lowest of their
\* percentage, and for each question index answered by some of them the
\* number of correct first answers, the number of those submissions and
\* their average time.
C32_AnalyticsAreRecomputation ==
    \A q \in QuizIds :
        LET quiz == quizzes[q]
            graded == GradedOf(quiz)
            an == quiz.analytics
        IN graded # {} =>
              /\ an.totalSubmissions = Cardinality(graded)
              /\ an.averageScore = RatDivInt(PercentSum(quiz, graded), Cardinality(graded))
              /\ \E k \in graded : an.highestScore = quiz.submissions[k].percentage
              /\ \A k \in graded : RatLeq(quiz.submissions[k].percentage, an.highestScore)
              /\ \E k \in graded : an.lowestScore = quiz.submissions[k].percentage
              /\ \A k \in graded : RatLeq(an.lowestScore, quiz.submissions[k].percentage)
              /\ \A index \in 0..(Len(quiz.questions) - 1) :
                    LET by == AnsweredBy(quiz, index)
                    IN IF by = {}
                       THEN index + 1 > Len(an.questionStats)
                               \/ an.questionStats[index + 1] = NoStat
                       ELSE /\ index + 1 <= Len(an.questionStats)
                            /\ an.questionStats[index + 1] =
                                  [questionIndex |-> index,
                                   correctAnswers |->
                                       Cardinality({k \in by : FirstAnswer(quiz, k, index).isCorrect}),
                                   totalAttempts |-> Cardinality(by),
                                   averageTime |->
                                       RatDivInt(Rat(SumOver(by,
                                           [k \in by |-> FirstAnswer(quiz, k, index).timeSpent]), 1),
                                           Cardinality(by))]

\* u2's second attempt was scored differently from the first while an
\* attempt is still in progress
C32_Witness ==
    /\ Cardinality(GradedOf(quizzes["q1"])) = 2
    /\ quizzes["q1"].analytics.highestScore # quizzes["q1"].analytics.lowestScore
    /\ \E k \in 1..Len(quizzes["q1"].submissions) :
          quizzes["q1"].submissions[k].status = "in-progress"
    /\ \E i \in 1..Len(tasks) : tasks[i].kind = "submitQuiz" /\ tasks[i].result = "200"

(***************************************************************************)
(* read-all next to sends: the stored messages of SpecStore and a message  *)
(* of u2 in g1 that u2 has soft-deleted.                                   *)
(***************************************************************************)
InitReadAll ==
    /\ groups = InitGroups
    /\ messages = Append(InitStoreMessages,
                         [NewMessage(5, "g1", "u2", "text", NoId)
                             EXCEPT !.isDeleted = TRUE, !.deletedAt = TRUE])
    /\ nextMsgId = 6
    /\ conns = [c \in Conns |->
                  [state |-> "authenticated", user |-> ConnUser[c],
                   rooms |-> {UserRoom(ConnUser[c])}]]
    /\ tasks = <<>>
    /\ outbox = <<>>
    /\ quizzes = InitQuizzes

NextReadAll ==
    \/ \E u \in Users, g \in TargetGroups : RestMarkAllAsRead(u, g)
    \/ \E i \in 1..MaxTasks : groupAuth(i, "readAll")
    \/ \E i \in 1..MaxTasks : MarkAllAsReadFind(i)
    \/ \E i \in 1..MaxTasks, mid \in 1..7 : MarkAllAsReadSave(i, mid)
    \/ \E u \in Users : RestSendMessage(u, "g1", NoId)
    \/ \E i \in 1..MaxTasks : groupAuth(i, "restSend")
    \/ \E i \in 1..MaxTasks : RestSendMessageCheck(i)
    \/ \E i \in 1..MaxTasks : RestSendMessageCreate(i)

SpecReadAll == InitReadAll /\ [][NextReadAll]_vars

\* the messages of group g that user u did not send and has not read, in the
\* store after the step
UnreadAfter(g, u) ==
    {k \in 1..Len(messages') :
        /\ messages'[k].groupId = g
        /\ messages'[k].senderId # u
        /\ u \notin SeqToSet(messages'[k].readBy)}

\* the read-all request i is answered with success in this step
ReadAllEnds(i) ==
    /\ tasks[i].kind = "readAll" /\ tasks[i].pc # "done"
    /\ tasks'[i].pc = "done" /\ tasks'[i].result = "200"

\* C33: when a read-all of (g, u) ends, every message of g that existed when
\* it began and that u did not send names u in readBy, and if it was the
\* only request nothing of g is unread by u; a step of it loses no message
\* and changes nothing of a stored message but readBy.
C33_MarkAllRead ==
    [][\A i \in 1..Len(tasks) :
          /\ ReadAllEnds(i) =>
                /\ \A k \in UnreadAfter(tasks[i].groupId, tasks[i].user) :
                      messages'[k].id >= tasks[i].arg.before
                /\ Len(tasks) = 1 => UnreadAfter(tasks[i].groupId, tasks[i].user) = {}
          /\ (tasks[i].kind = "readAll" /\ Moved(i)) =>
                /\ Len(messages') = Len(messages)
                /\ \A k \in 1..Len(messages) :
                      messages'[k] = [messages[k] EXCEPT !.readBy = messages'[k].readBy]]_vars

(***************************************************************************)
(* PUT /api/messages/:messageId (messageController.js 142-202).  The text  *)
(* of a message is content.text; previousContent is modelled by its text   *)
(* field.                                                                  *)
(***************************************************************************)
EditTexts == {"new text", "newer text"}

RestEditMessage(u, mid, text) ==
    /\ Len(tasks) < MaxTasks
    /\ tasks' = Append(tasks, [Task("restEdit", None, u, None, NoId, mid)
                                   EXCEPT !.pc = "findMessage",
                                          !.arg = [text |-> text]])
    /\ UNCHANGED <<groups, messages, nextMsgId, conns, outbox, quizzes>>

\* a variant of edit that records the current text on every edit
editEveryTime(message, newContent) ==
    [message EXCEPT !.edited = [isEdited |-> TRUE, previousContent |-> message.content],
                    !.content = newContent]

\* messageSchema.methods.edit on a loaded document
edit(message, newContent) ==
    [message EXCEPT !.edited = [isEdited |-> TRUE,
                                previousContent |->
                                    IF ~message.edited.isEdited
                                    THEN message.content
                                    ELSE message.edited.previousContent],
                    !.content = newContent]

\* Message.findById resolves; sender, system and deleted checks;
\* message.edit(content.text); message.save() is issued
EditMessageFind(i) ==
    /\ At(i, "restEdit", "findMessage")
    /\ LET t == tasks[i]
           message == MessageFindById(t.msgId)
       IN IF message = NoDoc THEN tasks' = Finish(i, "404")
          ELSE IF ~StrictEq(toString(Oid(message.senderId)), Str(t.user))
               THEN tasks' = Finish(i, "403")
          ELSE IF message.type = "system" THEN tasks' = Finish(i, "400")
          ELSE IF message.isDeleted THEN tasks' = Finish(i, "400")
          ELSE tasks' = [tasks EXCEPT ![i].pc = "save", ![i].doc = message]
    /\ UNCHANGED <<groups, messages, nextMsgId, conns, outbox, quizzes>>

\* message.save() resolves: the paths that edit changed on the loaded
\* document are set on the stored one; the populate read and the 200 follow
EditMessageSave(i) ==
    /\ At(i, "restEdit", "save")
    /\ LET t == tasks[i]
           edited == edit(t.doc, t.arg.text)
       IN IF Stored(t.msgId)
          THEN /\ messages' =
                    [k \in 1..Len(messages) |->
                        IF messages[k].id = t.msgId
                        THEN [messages[k] EXCEPT
                                !.content = edited.content,
                                !.edited = [isEdited |-> TRUE,
                                            previousContent |->
                                               IF edited.edited.previousContent
                                                     # t.doc.edited.previousContent
                                               THEN edited.edited.previousContent
                                               ELSE @.previousContent]]
                        ELSE messages[k]]
               /\ tasks' = Finish(i, "200")
          ELSE /\ tasks' = Finish(i, "500")
               /\ UNCHANGED messages
    /\ UNCHANGED <<groups, nextMsgId, conns, outbox, quizzes>>

NextEdit ==
    \/ \E u \in Users, mid \in {1, 3, 4, 9}, text \in EditTexts : RestEditMessage(u, mid, text)
    \/ \E i \in 1..MaxTasks : EditMessageFind(i)
    \/ \E i \in 1..MaxTasks : EditMessageSave(i)
    \/ RestDeleteMessage("u2", 3)
    \/ \E i \in 1..MaxTasks : RestDeleteMessageFind(i)
    \/ \E i \in 1..MaxTasks : RestDeleteMessageCheck(i)
    \/ \E i \in 1..MaxTasks : RestDeleteMessageSave(i)

SpecEdit == InitStore /\ [][NextEdit]_vars

\* the edit request i is answered with success in this step
EditEnds(i) ==
    /\ tasks[i].kind = "restEdit" /\ tasks[i].pc # "done"
    /\ tasks'[i].pc = "done" /\ tasks'[i].result = "200"

\* C34: the first edit of a message records the text it had as
\* previousContent, no later step changes previousContent, and every
\* successful edit leaves its text as the content of the message.
C34_PreviousContentKept ==
    [][\A k \in 1..Len(messages) :
          /\ (~messages[k].edited.isEdited /\ messages'[k].edited.isEdited) =>
                messages'[k].edited.previousContent = messages[k].content
          /\ messages[k].edited.isEdited =>
                /\ messages'[k].edited.isEdited
                /\ messages'[k].edited.previousContent = messages[k].edited.previousContent
          /\ \A i \in 1..Len(tasks) :
                (EditEnds(i) /\ tasks[i].msgId = messages[k].id) =>
                    /\ messages'[k].content = tasks[i].arg.text
                    /\ messages'[k].edited.isEdited]_vars

\* a message edited twice with different texts
C34_Witness ==
    \E k \in 1..Len(messages) :
        /\ Len(tasks) = 2
        /\ \A i \in 1..2 : /\ tasks[i].kind = "restEdit" /\ tasks[i].result = "200"
                           /\ tasks[i].msgId = messages[k].id
        /\ tasks[1].arg.text # tasks[2].arg.text
        /\ messages[k].edited.previousContent = "original text"
        /\ messages[k].content # "original text"

\* C35: in every state, no user has two membership records in the member
\* list of a stored group.
C35_OneRecordPerUser ==
    \A g \in DOMAIN groups :
        groups[g] # NoGroup =>
            \A k, l \in 1..Len(groups[g].members) :
                groups[g].members[k].user = groups[g].members[l].user => k = l

(***************************************************************************)
(* DELETE /api/groups/:groupId (part_004 33; groupController.js 160-187)   *)
(* next to a send-message event and a quiz creation for the group.         *)
(***************************************************************************)
RestDeleteGroup(u, g) ==
    /\ Len(tasks) < MaxTasks
    /\ tasks' = Append(tasks, [Task("deleteGroup", None, u, g, NoId, NoId)
                                   EXCEPT !.pc = "groupAuth"])
    /\ UNCHANGED <<groups, messages, nextMsgId, conns, outbox, quizzes>>

\* Group.findByIdAndDelete resolves; Message.deleteMany is issued
DeleteGroupFind(i) ==
    /\ At(i, "deleteGroup", "controller")
    /\ LET t == tasks[i] IN
       IF GroupFindById(t.groupId) = NoGroup
       THEN /\ tasks' = Finish(i, "404")
            /\ UNCHANGED groups
       ELSE /\ groups' = [groups EXCEPT ![t.groupId] = NoGroup]
            /\ tasks' = [tasks EXCEPT ![i].pc = "deleteMessages"]
    /\ UNCHANGED <<messages, nextMsgId, conns, outbox, quizzes>>

\* Message.deleteMany({ groupId }) resolves; Quiz.deleteMany is issued
DeleteGroupMessages(i) ==
    /\ At(i, "deleteGroup", "deleteMessages")
    /\ LET InOther(m) == m.groupId # tasks[i].groupId IN
          messages' = SelectSeq(messages, InOther)
    /\ tasks' = [tasks EXCEPT ![i].pc = "deleteQuizzes"]
    /\ UNCHANGED <<groups, nextMsgId, conns, outbox, quizzes>>

\* Quiz.deleteMany({ groupId }) resolves; 200
DeleteGroupQuizzes(i) ==
    /\ At(i, "deleteGroup", "deleteQuizzes")
    /\ quizzes' = [q \in DOMAIN quizzes |->
                      IF quizzes[q] # NoQuiz /\ quizzes[q].groupId = tasks[i].groupId
                      THEN NoQuiz ELSE quizzes[q]]
    /\ tasks' = Finish(i, "200")
    /\ UNCHANGED <<groups, messages, nextMsgId, conns, outbox>>

NextDeleteGroup ==
    \/ \E u \in Users : RestDeleteGroup(u, "g1")
    \/ \E i \in 1..MaxTasks : groupAuthAdmin(i, "deleteGroup")
    \/ \E i \in 1..MaxTasks : DeleteGroupFind(i)
    \/ \E i \in 1..MaxTasks : DeleteGroupMessages(i)
    \/ \E i \in 1..MaxTasks : DeleteGroupQuizzes(i)
    \/ \E c \in Conns : SendMessage(c, "g1", NoId)
    \/ \E i \in 1..MaxTasks : SendMessageAuthorize(i)
    \/ \E i \in 1..MaxTasks : SendMessageCreate(i)
    \/ \E i \in 1..MaxTasks : SendMessageBroadcast(i)
    \/ \E u \in Users : RestCreateQuiz(u, "g1", ScenarioQuestions)
    \/ \E i \in 1..MaxTasks : CreateQuizFindGroup(i)
    \/ \E i \in 1..MaxTasks : CreateQuizCreate(i)
    \/ \E i \in 1..MaxTasks : CreateQuizMessage(i)

SpecDeleteGroup == InitMarks /\ [][NextDeleteGroup]_vars

\* the messages and the quizzes stored with groupId g
StoredOfGroup(g) ==
    [messages |-> {k \in 1..Len(messages) : messages[k].groupId = g},
     quizzes  |-> {q \in DOMAIN quizzes :
                      quizzes[q] # NoQuiz /\ quizzes[q].groupId = g}]

\* C36: once a delete of a group has been answered with success, no message
\* and no quiz with the group's id is stored, in that state and in every
\* later one.
C36_DeletedGroupLeavesNothing ==
    \A i \in 1..Len(tasks) :
        (tasks[i].kind = "deleteGroup" /\ tasks[i].pc = "done" /\ tasks[i].result = "200")
        => StoredOfGroup(tasks[i].groupId) = [messages |-> {}, quizzes |-> {}]

\* C37: every graded submission has a totalScore between 0 and the quiz's
\* totalMarks and a percentage between 0 and 100.
C37_ScoreWithinBounds ==
    \A q \in QuizIds : \A k \in 1..Len(quizzes[q].submissions) :
        LET sub == quizzes[q].submissions[k] IN
        sub.status = "graded" =>
            /\ 0 <= sub.totalScore /\ sub.totalScore <= quizzes[q].totalMarks
            /\ RatLeq(Rat(0, 1), sub.percentage)
            /\ RatLeq(sub.percentage, Rat(100, 1))

(***************************************************************************)
(* socket.on('quiz-submitted') (socket.js 140-148) next to the start and   *)
(* the submit of a quiz by u2.                                             *)
(***************************************************************************)
MaxQuizEvents == 1      \* quiz-submitted events per behaviour

\* the listener: groupId, quizId and userId are taken from the payload and
\* sent on to the room as they are
QuizSubmitted(c, groupId, quizId, userId) ==
    /\ Connected(c)
    /\ Len(outbox) < MaxQuizEvents
    /\ outbox' = Append(outbox,
          Emission("quiz-submission-update", 0, c, GroupRoom(groupId),
                   SocketTo(c, GroupRoom(groupId)),
                   [quizId |-> quizId, userId |-> userId]))
    /\ UNCHANGED <<groups, messages, nextMsgId, conns, tasks, quizzes>>

NextQuizEvent ==
    \/ RestStartQuiz("u2", "q1")
    \/ \E i \in 1..MaxQuizTasks : StartQuizFind(i)
    \/ \E i \in 1..MaxQuizTasks : StartQuizSave(i)
    \/ \E a \in AttemptIds, ans \in AnswerLists : RestSubmitQuiz("u2", "q1", a, ans)
    \/ \E i \in 1..MaxQuizTasks : SubmitQuizFind(i)
    \/ \E i \in 1..MaxQuizTasks : SubmitQuizSave(i)
    \/ \E c \in Conns, g \in TargetGroups, q \in TargetQuizzes, u \in Users :
           QuizSubmitted(c, g, q, u)

SpecQuizEvent == Init /\ [][NextQuizEvent]_vars

\* C38: when a quiz-submission-update is sent to sockets of a group's room,
\* its userId is the user of the connection that emitted quiz-submitted and
\* that user has a graded submission in the quiz it names.
C38_UpdateNamesGradedSender ==
    [][Len(outbox') > Len(outbox) =>
          LET e == outbox'[Len(outbox')] IN
          (e.event = "quiz-submission-update" /\ e.to # {}) =>
              /\ e.data.userId = conns[e.from].user
              /\ QuizFindById(e.data.quizId) # NoQuiz
              /\ StoredAttempts(e.data.quizId, e.data.userId, {"graded"}) # {}]_vars

====
